---------------------------- MODULE Spec2Model ----------------------------
(***************************************************************************)
(* State-machine model of senti-sync's forecasting core:                   *)
(*   src/storage/LocalStateManager.ts  (the AsyncStorage-backed store)     *)
(*   src/prediction/PatternPredictor.ts (pattern analysis, forecast, dips) *)
(*                                                                         *)
(* Numbers.  The TypeScript code computes in IEEE-754 doubles.  The model  *)
(* computes the same expressions in exact rational arithmetic, carried as  *)
(* integer numerators over a stated denominator:                           *)
(*   - a blended average is a fraction num/den rounded by Math.round       *)
(*     (half up);                                                          *)
(*   - a forecast value is an integer count of 1/Unit;                     *)
(*   - a confidence is an integer count of 1/120 before rounding and a     *)
(*     count of 1/100 after Math.round(confidence * 100) / 100;            *)
(*   - Math.sin(..) * 3 and * 4 are tabulated to the nearest 1/1000;       *)
(*   - Math.random() is a draw r/1000, two draws per forecast step.        *)
(* Doubles can land one ulp below an exact tie x.5 that the model rounds   *)
(* up; no property below depends on the side a tie falls.                  *)
(*                                                                         *)
(* Time.  Timestamps are milliseconds since the epoch (Thursday            *)
(* 1970-01-01T00:00), the device's zone taken to be UTC without DST.       *)
(***************************************************************************)
EXTENDS Integers, Sequences, FiniteSets, TLC

VARIABLES
    entries,         \* AsyncStorage['mood_energy_entries']: sequence of samples
    lastEntry,       \* AsyncStorage['last_entry']: <<>> (absent) or <<sample>>
    dailyPatterns,   \* AsyncStorage['daily_patterns']: <<>> (absent) or the saved array
    weeklyPatterns,  \* AsyncStorage['weekly_patterns']: <<>> (absent) or the saved array
    now,             \* Date.now() during the session
    saves,           \* number of saveEntry calls made since Init
    ret,             \* the call that returned and its result, until the caller takes it
    tables,          \* the objects of DEFAULT_DAILY_PATTERNS and DEFAULT_WEEKLY_PATTERNS
    calls,           \* the calls of concurrent callers, each with its position and locals
    origin           \* the store when the concurrent callers started (<<>>: none started)

vars == <<entries, lastEntry, dailyPatterns, weeklyPatterns, now, saves, ret,
          tables, calls, origin>>

store == <<entries, lastEntry, dailyPatterns, weeklyPatterns>>

-----------------------------------------------------------------------------
(* Bounds of the model *)

\* samples already stored when the model starts: 0..MaxInit
MaxInit == 20
\* saveEntry calls made after Init
MaxSaves == 1

-----------------------------------------------------------------------------
(* Time *)

MinuteMs == 60 * 1000
HourMs == 60 * 60 * 1000
DayMs == 24 * HourMs

\* new Date(t).getHours()
getHours(t) == (t \div HourMs) % 24
\* new Date(t).getDay(); day 0 of the epoch is a Thursday (4)
getDay(t) == ((t \div DayMs) + 4) % 7
\* new Date(t).getMinutes()
getMinutes(t) == (t \div MinuteMs) % 60

-----------------------------------------------------------------------------
(* Generic helpers standing for the JavaScript array and Math primitives *)

Min(a, b) == IF a <= b THEN a ELSE b
Max(a, b) == IF a >= b THEN a ELSE b

\* Array.prototype.find: <<>> for undefined, <<x>> for the first match
Find(seq, Test(_)) ==
    LET hits == SelectSeq(seq, Test)
    IN  IF hits = <<>> THEN <<>> ELSE <<Head(hits)>>

\* a || b on an optional object
OrElse(opt, fallback) == IF opt = <<>> THEN fallback ELSE opt[1]

\* values.reduce((a, b) => a + b, 0)
RECURSIVE Sum(_)
Sum(values) == IF values = <<>> THEN 0 ELSE Head(values) + Sum(Tail(values))

\* Array.prototype.map over a sequence
Map(seq, F(_)) == [i \in 1..Len(seq) |-> F(seq[i])]

\* Array.prototype.slice(-k)
SliceLast(seq, k) ==
    IF Len(seq) <= k THEN seq ELSE SubSeq(seq, Len(seq) - k + 1, Len(seq))

\* Array.prototype.slice(-a, -b) with a > b > 0
SliceFromEnd(seq, a, b) ==
    SubSeq(seq, Max(Len(seq) - a, 0) + 1, Len(seq) - b)

\* Math.round of the non-negative fraction num/den (den > 0): half rounds up
RoundDiv(num, den) == (2 * num + den) \div (2 * den)

-----------------------------------------------------------------------------
(* The baseline tables, in the order the source lists them: the contents   *)
(* the module-level arrays are initialised with; tables holds the          *)
(* contents their objects have now                                         *)

DEFAULT_DAILY_PATTERNS == <<
    [hour |-> 6, averageMood |-> 45, averageEnergy |-> 30, entryCount |-> 0],
    [hour |-> 7, averageMood |-> 50, averageEnergy |-> 35, entryCount |-> 0],
    [hour |-> 8, averageMood |-> 55, averageEnergy |-> 45, entryCount |-> 0],
    [hour |-> 9, averageMood |-> 60, averageEnergy |-> 60, entryCount |-> 0],
    [hour |-> 10, averageMood |-> 65, averageEnergy |-> 70, entryCount |-> 0],
    [hour |-> 11, averageMood |-> 68, averageEnergy |-> 75, entryCount |-> 0],
    [hour |-> 12, averageMood |-> 70, averageEnergy |-> 75, entryCount |-> 0],
    [hour |-> 13, averageMood |-> 68, averageEnergy |-> 70, entryCount |-> 0],
    [hour |-> 14, averageMood |-> 60, averageEnergy |-> 55, entryCount |-> 0],
    [hour |-> 15, averageMood |-> 58, averageEnergy |-> 50, entryCount |-> 0],
    [hour |-> 16, averageMood |-> 62, averageEnergy |-> 60, entryCount |-> 0],
    [hour |-> 17, averageMood |-> 65, averageEnergy |-> 65, entryCount |-> 0],
    [hour |-> 18, averageMood |-> 63, averageEnergy |-> 60, entryCount |-> 0],
    [hour |-> 19, averageMood |-> 60, averageEnergy |-> 55, entryCount |-> 0],
    [hour |-> 20, averageMood |-> 58, averageEnergy |-> 50, entryCount |-> 0],
    [hour |-> 21, averageMood |-> 55, averageEnergy |-> 45, entryCount |-> 0],
    [hour |-> 22, averageMood |-> 50, averageEnergy |-> 35, entryCount |-> 0],
    [hour |-> 23, averageMood |-> 45, averageEnergy |-> 30, entryCount |-> 0],
    [hour |-> 0, averageMood |-> 40, averageEnergy |-> 25, entryCount |-> 0],
    [hour |-> 1, averageMood |-> 35, averageEnergy |-> 20, entryCount |-> 0],
    [hour |-> 2, averageMood |-> 30, averageEnergy |-> 15, entryCount |-> 0],
    [hour |-> 3, averageMood |-> 28, averageEnergy |-> 12, entryCount |-> 0],
    [hour |-> 4, averageMood |-> 30, averageEnergy |-> 15, entryCount |-> 0],
    [hour |-> 5, averageMood |-> 35, averageEnergy |-> 20, entryCount |-> 0] >>

DEFAULT_WEEKLY_PATTERNS == <<
    [dayOfWeek |-> 0, averageMood |-> 55, averageEnergy |-> 60, entryCount |-> 0],
    [dayOfWeek |-> 1, averageMood |-> 50, averageEnergy |-> 65, entryCount |-> 0],
    [dayOfWeek |-> 2, averageMood |-> 65, averageEnergy |-> 70, entryCount |-> 0],
    [dayOfWeek |-> 3, averageMood |-> 68, averageEnergy |-> 72, entryCount |-> 0],
    [dayOfWeek |-> 4, averageMood |-> 70, averageEnergy |-> 70, entryCount |-> 0],
    [dayOfWeek |-> 5, averageMood |-> 72, averageEnergy |-> 68, entryCount |-> 0],
    [dayOfWeek |-> 6, averageMood |-> 75, averageEnergy |-> 65, entryCount |-> 0] >>

\* faulty variant of defaultDailyFind: the lookup is off by one hour
defaultDailyFind_offByOne(hour) ==
    LET Test(p) == p.hour = hour + 1 IN Find(tables.daily, Test)

\* DEFAULT_DAILY_PATTERNS.find(p => p.hour === hour)
defaultDailyFind(hour) ==
    LET Test(p) == p.hour = hour IN Find(tables.daily, Test)

\* DEFAULT_WEEKLY_PATTERNS.find(p => p.dayOfWeek === day)
defaultWeeklyFind(day) ==
    LET Test(p) == p.dayOfWeek = day IN Find(tables.weekly, Test)

\* the literal { hour, averageMood: 50, averageEnergy: 50, entryCount: 0 }
neutralHour(hour) ==
    [hour |-> hour, averageMood |-> 50, averageEnergy |-> 50, entryCount |-> 0]

\* the literal { dayOfWeek, averageMood: 60, averageEnergy: 60, entryCount: 0 }
neutralDay(day) ==
    [dayOfWeek |-> day, averageMood |-> 60, averageEnergy |-> 60, entryCount |-> 0]

\* getDefaultPatternForHour(hour)
getDefaultPatternForHour(hour) == OrElse(defaultDailyFind(hour), neutralHour(hour))

\* getDefaultPatternForDay(dayOfWeek)
getDefaultPatternForDay(day) == OrElse(defaultWeeklyFind(day), neutralDay(day))

-----------------------------------------------------------------------------
(* PatternPredictor.analyzeDailyPatterns / analyzeWeeklyPatterns: the       *)
(* computation between the read of the entries and the save of the result  *)

\* faulty variant of hourBucket: the hours are compared on a 12-hour clock
hourBucket_twelveHourClock(es, hour) ==
    LET InHour(e) == getHours(e.timestamp) % 12 = hour % 12 IN SelectSeq(es, InHour)

\* entries.forEach(...): the samples grouped under one hour
hourBucket(es, hour) ==
    LET Test(e) == getHours(e.timestamp) = hour IN SelectSeq(es, Test)

\* faulty variant of dayBucket: the samples are grouped by getDate(), the day
\* of the month (the model's timestamps lie in January 1970)
dayBucket_byDate(es, day) ==
    LET Test(e) == ((e.timestamp \div DayMs) % 31) + 1 = day IN SelectSeq(es, Test)

\* entries.forEach(...): the samples grouped under one day of the week
dayBucket(es, day) ==
    LET Test(e) == getDay(e.timestamp) = day IN SelectSeq(es, Test)

moodOf(e) == e.mood
energyOf(e) == e.energy

\* faulty variant of dailyDataWeight: the cap of 0.8 is missing
dailyDataWeight_uncapped(n) == n

\* Math.min(n / 10, 0.8), in tenths
dailyDataWeight(n) == Min(n, 8)

\* faulty variant of weeklyDataWeight: the cap of 0.7 is missing
weeklyDataWeight_uncapped(n) == 2 * n

\* Math.min(n / 15, 0.7), in thirtieths
weeklyDataWeight(n) == Min(2 * n, 21)

\* defaultPattern?.averageMood || fallback: undefined and 0 are both falsy
baselineOr(opt, value, fallback) ==
    IF opt = <<>> THEN fallback
    ELSE IF value = 0 THEN fallback ELSE value

\* faulty variant of blend: defaultWeight is 1 instead of 1 - dataWeight
blend_noComplement(sum, n, wNum, wDen, baseline) ==
    RoundDiv(sum * wNum + baseline * wDen * n, n * wDen)

\* Math.round((avg * dataWeight) + baseline * defaultWeight) where avg = sum / n,
\* dataWeight = wNum / wDen and defaultWeight = 1 - dataWeight
blend(sum, n, wNum, wDen, baseline) ==
    RoundDiv(sum * wNum + baseline * (wDen - wNum) * n, n * wDen)

\* one iteration of the loop over hour = 0..23
dailyPatternFor(es, hour) ==
    LET defaultPattern == defaultDailyFind(hour)
        bucket == hourBucket(es, hour)
        n == Len(bucket)
        dataWeight == dailyDataWeight(n)
    IN  IF n > 0
        THEN [hour |-> hour,
              averageMood |->
                  blend(Sum(Map(bucket, moodOf)), n, dataWeight, 10,
                        baselineOr(defaultPattern,
                                   OrElse(defaultPattern, neutralHour(hour)).averageMood, 50)),
              averageEnergy |->
                  blend(Sum(Map(bucket, energyOf)), n, dataWeight, 10,
                        baselineOr(defaultPattern,
                                   OrElse(defaultPattern, neutralHour(hour)).averageEnergy, 50)),
              entryCount |-> n]
        ELSE OrElse(defaultPattern, neutralHour(hour))

\* one iteration of the loop over day = 0..6
weeklyPatternFor(es, day) ==
    LET defaultPattern == defaultWeeklyFind(day)
        bucket == dayBucket(es, day)
        n == Len(bucket)
        dataWeight == weeklyDataWeight(n)
    IN  IF n > 0
        THEN [dayOfWeek |-> day,
              averageMood |->
                  blend(Sum(Map(bucket, moodOf)), n, dataWeight, 30,
                        baselineOr(defaultPattern,
                                   OrElse(defaultPattern, neutralDay(day)).averageMood, 60)),
              averageEnergy |->
                  blend(Sum(Map(bucket, energyOf)), n, dataWeight, 30,
                        baselineOr(defaultPattern,
                                   OrElse(defaultPattern, neutralDay(day)).averageEnergy, 60)),
              entryCount |-> n]
        ELSE OrElse(defaultPattern, neutralDay(day))

\* faulty variant of computeDailyPatterns: the loop runs over hour = 1..24
computeDailyPatterns_oneBased(es) == [i \in 1..24 |-> dailyPatternFor(es, i)]

\* for (let hour = 0; hour < 24; hour++) dailyPatterns.push(...)
computeDailyPatterns(es) == [i \in 1..24 |-> dailyPatternFor(es, i - 1)]

\* for (let day = 0; day < 7; day++) weeklyPatterns.push(...)
computeWeeklyPatterns(es) == [i \in 1..7 |-> weeklyPatternFor(es, i - 1)]

\* The identity of a pattern object handed to a caller: 0 for an object the
\* call created (an object literal), i > 0 for the i-th object of the baseline
\* table, which find() returns as it is.

\* the object DEFAULT_DAILY_PATTERNS.find(p => p.hour === hour) returns
defaultDailyObject(hour) ==
    LET hits == { i \in 1..Len(tables.daily) : tables.daily[i].hour = hour }
    IN  IF hits = {} THEN 0 ELSE CHOOSE i \in hits : \A j \in hits : i <= j

\* the object DEFAULT_WEEKLY_PATTERNS.find(p => p.dayOfWeek === day) returns
defaultWeeklyObject(day) ==
    LET hits == { i \in 1..Len(tables.weekly) : tables.weekly[i].dayOfWeek = day }
    IN  IF hits = {} THEN 0 ELSE CHOOSE i \in hits : \A j \in hits : i <= j

\* the objects analyzeDailyPatterns pushes: a new { hour, .. } literal for an
\* hour with samples, else defaultPattern || { new literal }
dailyObjects(es) ==
    [i \in 1..24 |-> IF Len(hourBucket(es, i - 1)) > 0 THEN 0
                     ELSE defaultDailyObject(i - 1)]

\* the objects analyzeWeeklyPatterns pushes
weeklyObjects(es) ==
    [i \in 1..7 |-> IF Len(dayBucket(es, i - 1)) > 0 THEN 0
                    ELSE defaultWeeklyObject(i - 1)]

-----------------------------------------------------------------------------
(* PatternPredictor.generatePredictions and its helpers *)

\* forecast values are carried as integer counts of 1/Unit
Unit == 300 * 1000

\* Math.sin((hour - 6) / 24 * 2 * Math.PI) * 3, in thousandths, for hour = 0..23
circadianMoodTable == <<
    -3000, -2898, -2598, -2121, -1500, -776, 0, 776, 1500, 2121, 2598, 2898,
    3000, 2898, 2598, 2121, 1500, 776, 0, -776, -1500, -2121, -2598, -2898 >>

\* Math.sin((hour - 4) / 24 * 2 * Math.PI) * 4, in thousandths, for hour = 0..23
circadianEnergyTable == <<
    -3464, -2828, -2000, -1035, 0, 1035, 2000, 2828, 3464, 3864, 4000, 3864,
    3464, 2828, 2000, 1035, 0, -1035, -2000, -2828, -3464, -3864, -4000, -3864 >>

\* faulty variant of randomFactor: the noise does not shrink with the distance
randomFactor_noDecay(hoursAhead) == 100

\* Math.max(0.2, 1 - (hoursAhead * 0.05)), in hundredths
randomFactor(hoursAhead) == Max(20, 100 - 5 * hoursAhead)

\* getTimeBasedVariation(hour, hoursAhead), in 1/Unit; draw.mood and draw.energy
\* are the two Math.random() results, in thousandths
getTimeBasedVariation(hour, hoursAhead, draw) ==
    LET circadianMood == circadianMoodTable[hour + 1] * (Unit \div 1000)
        circadianEnergy == circadianEnergyTable[hour + 1] * (Unit \div 1000)
        moodNoise == (draw.mood - 500) * 4 * randomFactor(hoursAhead) * (Unit \div 100000)
        energyNoise == (draw.energy - 500) * 5 * randomFactor(hoursAhead) * (Unit \div 100000)
    IN  [mood |-> circadianMood + moodNoise, energy |-> circadianEnergy + energyNoise]

\* faulty variant of calculateTrend: without the test of older.length, an empty
\* earlier window counts as an average of 0
calculateTrend_emptyOlder(values) ==
    IF Len(values) < 2 THEN 0
    ELSE LET recent == SliceLast(values, 3)
             older == SliceFromEnd(values, 6, 3)
         IN  (Unit \div Len(recent)) * Sum(recent)
             - (IF Len(older) = 0 THEN 0 ELSE (Unit \div Len(older)) * Sum(older))

\* calculateTrend(values), in 1/Unit
calculateTrend(values) ==
    IF Len(values) < 2 THEN 0
    ELSE LET recent == SliceLast(values, 3)
             older == SliceFromEnd(values, 6, 3)
         IN  IF Len(older) = 0 THEN 0
             ELSE (Unit \div Len(recent)) * Sum(recent)
                  - (Unit \div Len(older)) * Sum(older)

\* faulty variant of trendWeight: the floor Math.max(0.1, ..) is missing
trendWeight_noFloor(i) == 40 - 3 * i

\* Math.max(0.1, 0.4 - (i * 0.03)), in hundredths
trendWeight(i) == Max(10, 40 - 3 * i)

\* faulty variant of hourPatternFor: the baseline table is not consulted
hourPatternFor_noTable(daily, futureHour) ==
    LET Test(p) == p.hour = futureHour
    IN  OrElse(Find(daily, Test), neutralHour(futureHour))

\* dailyPatterns.find(..) || DEFAULT_DAILY_PATTERNS.find(..) || { neutral }
hourPatternFor(daily, futureHour) ==
    LET Test(p) == p.hour = futureHour
        stored == Find(daily, Test)
    IN  IF stored # <<>> THEN stored[1]
        ELSE OrElse(defaultDailyFind(futureHour), neutralHour(futureHour))

\* weeklyPatterns.find(..) || DEFAULT_WEEKLY_PATTERNS.find(..) || { neutral }
dayPatternFor(weekly, futureDayOfWeek) ==
    LET Test(p) == p.dayOfWeek = futureDayOfWeek
        stored == Find(weekly, Test)
    IN  IF stored # <<>> THEN stored[1]
        ELSE OrElse(defaultWeeklyFind(futureDayOfWeek), neutralDay(futureDayOfWeek))

\* faulty variant of baseConfidence: the floor Math.max(0.6, ..) is missing
baseConfidence_noFloor(hourPattern, dayPattern) ==
    IF hourPattern.entryCount > 0 \/ dayPattern.entryCount > 0
    THEN Min(6 * hourPattern.entryCount, 60) + Min(4 * dayPattern.entryCount, 60)
    ELSE 72

\* the confidence before the trend step, in 1/120
baseConfidence(hourPattern, dayPattern) ==
    IF hourPattern.entryCount > 0 \/ dayPattern.entryCount > 0
    THEN LET hourConfidence == Min(6 * hourPattern.entryCount, 60)
             dayConfidence == Min(4 * dayPattern.entryCount, 60)
         IN  Max(72, hourConfidence + dayConfidence)
    ELSE 72

\* faulty variant of trendApplies: the trend step runs whatever the number of samples
trendApplies_always(lastEntries) == TRUE

\* whether the trend step runs: lastEntries.length >= 3
trendApplies(lastEntries) == Len(lastEntries) >= 3

\* faulty variant of clamp: the value is left as it is
clamp_none(v) == v

\* Math.max(10, Math.min(90, v)), in 1/Unit
clamp(v) == Max(10 * Unit, Min(90 * Unit, v))

\* faulty variant of futureTimeAt: the first step is the call time itself
futureTimeAt_zeroBased(t, i) == t + ((i - 1) * 60 * 60 * 1000)

\* futureTime = now + (i * 60 * 60 * 1000)
futureTimeAt(t, i) == t + (i * 60 * 60 * 1000)

\* the body of the loop for step i: the point pushed onto predictions
predictionAt(daily, weekly, lastEntries, t, i, draw) ==
    LET futureTime == futureTimeAt(t, i)
        futureHour == getHours(futureTime)
        futureDayOfWeek == getDay(futureTime)
        hourPattern == hourPatternFor(daily, futureHour)
        dayPattern == dayPatternFor(weekly, futureDayOfWeek)
        mood0 == (hourPattern.averageMood + dayPattern.averageMood) * (Unit \div 2)
        energy0 == (hourPattern.averageEnergy + dayPattern.averageEnergy) * (Unit \div 2)
        confidence0 == baseConfidence(hourPattern, dayPattern)
        applies == trendApplies(lastEntries)
        moodTrend == calculateTrend(Map(lastEntries, moodOf))
        energyTrend == calculateTrend(Map(lastEntries, energyOf))
        mood1 == IF applies THEN mood0 + (moodTrend \div 100) * trendWeight(i) ELSE mood0
        energy1 == IF applies THEN energy0 + (energyTrend \div 100) * trendWeight(i)
                   ELSE energy0
        confidence1 == IF applies THEN Min(120, confidence0 + 12) ELSE confidence0
        timeVariation == getTimeBasedVariation(futureHour, i, draw)
        mood2 == clamp(mood1 + timeVariation.mood)
        energy2 == clamp(energy1 + timeVariation.energy)
    IN  [timestamp |-> futureTime,
         predictedMood |-> RoundDiv(mood2, Unit),
         predictedEnergy |-> RoundDiv(energy2, Unit),
         confidence |-> RoundDiv(confidence1 * 100, 120)]

\* faulty variant of computePredictions: the loop body runs at least once
computePredictions_atLeastOnce(daily, weekly, recentEntries, t, hoursAhead, noise) ==
    LET lastEntries == SliceLast(recentEntries, 10)
        drawAt(i) == IF i \in DOMAIN noise THEN noise[i]
                     ELSE [mood |-> 500, energy |-> 500]
    IN  [i \in 1..Max(hoursAhead, 1) |->
            predictionAt(daily, weekly, lastEntries, t, i, drawAt(i))]

\* generatePredictions(hoursAhead) once its three reads have returned daily,
\* weekly and recentEntries, at Date.now() = t; noise[i] holds step i's two draws
computePredictions(daily, weekly, recentEntries, t, hoursAhead, noise) ==
    LET lastEntries == SliceLast(recentEntries, 10)
    IN  [i \in 1..hoursAhead |-> predictionAt(daily, weekly, lastEntries, t, i, noise[i])]

\* p.confidence > 0.7 ? 30 : 35, the confidence in hundredths
dipThreshold(confidence) == IF confidence > 70 THEN 30 ELSE 35

\* faulty variant of isEnergyDip: a point at its threshold passes the test
isEnergyDip_orEqual(p) == p.predictedEnergy <= dipThreshold(p.confidence)

\* the filter's test: p.predictedEnergy < threshold
isEnergyDip(p) == p.predictedEnergy < dipThreshold(p.confidence)

\* the item a dip is mapped to; toLocaleTimeString('en-US', { hour: 'numeric',
\* minute: '2-digit', hour12: false }) prints the pair <<hour, minute>> as "H:MM"
dipItem(dip) ==
    [time |-> <<getHours(dip.timestamp), getMinutes(dip.timestamp)>>,
     energy |-> dip.predictedEnergy]

\* predictions.filter(..).map(..) of findEnergyDips
energyDipsOf(predictions) == Map(SelectSeq(predictions, isEnergyDip), dipItem)

-----------------------------------------------------------------------------
(* Inputs of the model *)

\* the slider positions of the samples stored before the model starts
InitSliders == { [mood |-> 80, energy |-> 80], [mood |-> 59, energy |-> 100] }

\* the slider positions saveEntry is called with
SaveSliders == { [mood |-> 60, energy |-> 70], [mood |-> 100, energy |-> 0] }

\* the horizons generatePredictions is called with
HoursAheadArgs == { -1, 0, 1, 12 }

\* the pairs of Math.random() results, in thousandths, a forecast step draws
NoisePairs == { [mood |-> 999, energy |-> 0], [mood |-> 500, energy |-> 500] }

\* the draws of one call: every step of it draws the same pair
NoiseStreams(hoursAhead) == { [i \in 1..hoursAhead |-> p] : p \in NoisePairs }

\* the first stored sample was saved on Thursday 1970-01-01 at 09:00, the
\* following ones a minute apart
FirstSaveTime == 9 * HourMs

\* the time from the last stored sample to the session the model follows: none,
\* 54 hours (Saturday 15h: the next 12 hours run into Sunday's small hours) and
\* 162 hours (the next Thursday 03h: the next 12 hours reach the samples' hour)
SessionDelays == { 0, 54 * HourMs, 162 * HourMs }

\* the store after k saves of the same slider position, a minute apart
initialEntries(k, slider) ==
    [j \in 1..k |-> [id |-> j,
                     timestamp |-> FirstSaveTime + (j - 1) * MinuteMs,
                     mood |-> slider.mood,
                     energy |-> slider.energy]]

\* the ids saveEntry is called with: one never stored, and the oldest stored one
SaveIds == { MaxInit + 1 + saves } \cup (IF entries = <<>> THEN {} ELSE { entries[1].id })

-----------------------------------------------------------------------------
(* The state machine of one session: a caller makes one call at a time,     *)
(* every call runs to completion and every storage call succeeds            *)

Init ==
    \E k \in 0..MaxInit, slider \in InitSliders, delay \in SessionDelays :
        /\ entries = initialEntries(k, slider)
        /\ lastEntry = (IF k = 0 THEN <<>> ELSE << initialEntries(k, slider)[k] >>)
        /\ dailyPatterns = <<>>
        /\ weeklyPatterns = <<>>
        /\ now = FirstSaveTime + k * MinuteMs + delay
        /\ saves = 0
        /\ ret = [op |-> "none"]
        /\ tables = [daily |-> DEFAULT_DAILY_PATTERNS, weekly |-> DEFAULT_WEEKLY_PATTERNS]
        /\ calls = <<>>
        /\ origin = <<>>

\* LocalStateManager.getEntries()
getEntries == entries

\* LocalStateManager.getDailyPatterns(): data ? JSON.parse(data) : []
getDailyPatterns == dailyPatterns

\* LocalStateManager.getWeeklyPatterns(): data ? JSON.parse(data) : []
getWeeklyPatterns == weeklyPatterns

\* faulty variant of updatedEntries: the entry is appended without the filter
updatedEntries_appendOnly(es, entry) == Append(es, entry)

\* [...entries.filter(e => e.id !== entry.id), entry]
updatedEntries(es, entry) ==
    LET Keep(e) == e.id # entry.id IN Append(SelectSeq(es, Keep), entry)

\* LocalStateManager.saveEntry(entry), called by TrackScreen.saveEntry with
\* timestamp: Date.now() and the sliders' mood and energy
saveEntry(entry) ==
    /\ ret.op = "none"
    /\ saves < MaxSaves
    /\ entries' = updatedEntries(getEntries, entry)
    /\ lastEntry' = << entry >>
    /\ saves' = saves + 1
    /\ ret' = [op |-> "saveEntry", entry |-> entry]
    /\ UNCHANGED <<dailyPatterns, weeklyPatterns, now>>
    /\ UNCHANGED <<tables, calls, origin>>

\* faulty variant of analyzeDailyPatterns: summaries already stored are
\* returned as they are instead of being computed again
analyzeDailyPatterns_cached ==
    LET result == IF getDailyPatterns # <<>> THEN getDailyPatterns
                  ELSE computeDailyPatterns(getEntries)
    IN  /\ ret.op = "none"
        /\ dailyPatterns' = result
        /\ ret' = [op |-> "analyzeDailyPatterns", value |-> result]
        /\ UNCHANGED <<entries, lastEntry, weeklyPatterns, now, saves>>
        /\ UNCHANGED <<tables, calls, origin>>

\* PatternPredictor.analyzeDailyPatterns(): the array is saved as JSON text and
\* returned; objects names, entry by entry, the object the array holds
analyzeDailyPatterns ==
    LET result == computeDailyPatterns(getEntries)
    IN  /\ ret.op = "none"
        /\ dailyPatterns' = result
        /\ ret' = [op |-> "analyzeDailyPatterns", value |-> result,
                   objects |-> dailyObjects(getEntries)]
        /\ UNCHANGED <<entries, lastEntry, weeklyPatterns, now, saves>>
        /\ UNCHANGED <<tables, calls, origin>>

\* faulty variant of analyzeWeeklyPatterns: the samples are pruned to the 15
\* most recent ones and saved back
analyzeWeeklyPatterns_pruning ==
    LET result == computeWeeklyPatterns(getEntries)
    IN  /\ ret.op = "none"
        /\ weeklyPatterns' = result
        /\ entries' = SliceLast(getEntries, 15)
        /\ ret' = [op |-> "analyzeWeeklyPatterns", value |-> result]
        /\ UNCHANGED <<lastEntry, dailyPatterns, now, saves>>
        /\ UNCHANGED <<tables, calls, origin>>

\* PatternPredictor.analyzeWeeklyPatterns(): the array is saved as JSON text and
\* returned; objects names, entry by entry, the object the array holds
analyzeWeeklyPatterns ==
    LET result == computeWeeklyPatterns(getEntries)
    IN  /\ ret.op = "none"
        /\ weeklyPatterns' = result
        /\ ret' = [op |-> "analyzeWeeklyPatterns", value |-> result,
                   objects |-> weeklyObjects(getEntries)]
        /\ UNCHANGED <<entries, lastEntry, dailyPatterns, now, saves>>
        /\ UNCHANGED <<tables, calls, origin>>

\* faulty variant of generatePredictions: when no daily patterns are stored,
\* the baseline table is stored in their place
generatePredictions_storingDefaults(hoursAhead, noise) ==
    /\ ret.op = "none"
    /\ ret' = [op |-> "generatePredictions",
               outcome |-> "resolved",
               hoursAhead |-> hoursAhead,
               noise |-> noise,
               value |-> computePredictions(getDailyPatterns, getWeeklyPatterns,
                                            getEntries, now, hoursAhead, noise)]
    /\ dailyPatterns' = (IF getDailyPatterns = <<>> THEN tables.daily ELSE dailyPatterns)
    /\ UNCHANGED <<entries, lastEntry, weeklyPatterns, now, saves>>
    /\ UNCHANGED <<tables, calls, origin>>

\* PatternPredictor.generatePredictions(hoursAhead): the function holds no
\* throw and its three reads catch their own errors, so its promise resolves
generatePredictions(hoursAhead, noise) ==
    /\ ret.op = "none"
    /\ ret' = [op |-> "generatePredictions",
               outcome |-> "resolved",
               hoursAhead |-> hoursAhead,
               noise |-> noise,
               value |-> computePredictions(getDailyPatterns, getWeeklyPatterns,
                                            getEntries, now, hoursAhead, noise)]
    /\ UNCHANGED <<entries, lastEntry, dailyPatterns, weeklyPatterns, now, saves>>
    /\ UNCHANGED <<tables, calls, origin>>

\* PatternPredictor.findEnergyDips()
findEnergyDips(noise) ==
    LET predictions == computePredictions(getDailyPatterns, getWeeklyPatterns,
                                          getEntries, now, 12, noise)
    IN  /\ ret.op = "none"
        /\ ret' = [op |-> "findEnergyDips",
                   predictions |-> predictions,
                   value |-> energyDipsOf(predictions)]
        /\ UNCHANGED <<entries, lastEntry, dailyPatterns, weeklyPatterns, now, saves>>
        /\ UNCHANGED <<tables, calls, origin>>

\* LocalStateManager.clearAllData(): AsyncStorage.multiRemove of every key
clearAllData ==
    /\ ret.op = "none"
    /\ entries # <<>> \/ dailyPatterns # <<>> \/ weeklyPatterns # <<>>
    /\ entries' = <<>>
    /\ lastEntry' = <<>>
    /\ dailyPatterns' = <<>>
    /\ weeklyPatterns' = <<>>
    /\ ret' = [op |-> "clearAllData"]
    /\ UNCHANGED <<now, saves>>
    /\ UNCHANGED <<tables, calls, origin>>

\* the caller takes the result of the call that returned
takeResult ==
    /\ ret.op # "none"
    /\ ret' = [op |-> "none"]
    /\ UNCHANGED <<entries, lastEntry, dailyPatterns, weeklyPatterns, now, saves>>
    /\ UNCHANGED <<tables, calls, origin>>

Next ==
    \/ \E id \in SaveIds, slider \in SaveSliders :
           saveEntry([id |-> id, timestamp |-> now,
                      mood |-> slider.mood, energy |-> slider.energy])
    \/ analyzeDailyPatterns
    \/ analyzeWeeklyPatterns
    \/ \E hoursAhead \in HoursAheadArgs :
           \E noise \in NoiseStreams(hoursAhead) : generatePredictions(hoursAhead, noise)
    \/ \E noise \in NoiseStreams(12) : findEnergyDips(noise)
    \/ clearAllData
    \/ takeResult

Spec == Init /\ [][Next]_vars

-----------------------------------------------------------------------------
(* Vocabulary of the properties *)

Hours == 0..23
Days == 0..6

\* the entry the baseline table holds for an hour, for a day
tableHour(h) ==
    CHOOSE p \in { DEFAULT_DAILY_PATTERNS[i] : i \in 1..Len(DEFAULT_DAILY_PATTERNS) } :
        p.hour = h
tableDay(d) ==
    CHOOSE p \in { DEFAULT_WEEKLY_PATTERNS[i] : i \in 1..Len(DEFAULT_WEEKLY_PATTERNS) } :
        p.dayOfWeek = d

\* the stored samples of an hour, of a day, as a set of positions in entries
inHour(h) == { j \in 1..Len(entries) : (entries[j].timestamp \div HourMs) % 24 = h }
inDay(d) == { j \in 1..Len(entries) : ((entries[j].timestamp \div DayMs) + 4) % 7 = d }

RECURSIVE moodSum(_), energySum(_)
moodSum(S) ==
    IF S = {} THEN 0 ELSE LET j == CHOOSE x \in S : TRUE
                          IN  entries[j].mood + moodSum(S \ {j})
energySum(S) ==
    IF S = {} THEN 0 ELSE LET j == CHOOSE x \in S : TRUE
                          IN  entries[j].energy + energySum(S \ {j})

returnedDaily == ret.op = "analyzeDailyPatterns"
returnedWeekly == ret.op = "analyzeWeeklyPatterns"

\* r is the fraction num/den (den > 0) rounded to the nearest integer, half up:
\* r - 1/2 <= num/den < r + 1/2
isRounded(r, num, den) ==
    /\ 2 * den * r - den <= 2 * num
    /\ 2 * num < 2 * den * r + den

\* the weights of the claim: min(n/10, 0.8) in tenths, min(n/15, 0.7) in thirtieths
hourWeight(n) == IF n <= 8 THEN n ELSE 8
dayWeight(n) == IF 2 * n <= 21 THEN 2 * n ELSE 21

\* r = round(raw * w + baseline * (1 - w)) with raw = sum/n and w = wNum/wDen
isBlend(r, sum, n, wNum, wDen, baseline) ==
    isRounded(r, sum * wNum + baseline * (wDen - wNum) * n, n * wDen)

-----------------------------------------------------------------------------
(* C1: whatever the stored samples, analyzeDailyPatterns returns exactly 24 *)
(* entries whose hours are 0, 1, .., 23 in this order, and                  *)
(* analyzeWeeklyPatterns exactly 7 entries whose days are 0, 1, .., 6 in    *)
(* this order.                                                              *)
C1_Completeness ==
    /\ returnedDaily =>
           /\ Len(ret.value) = 24
           /\ \A i \in 1..24 : ret.value[i].hour = i - 1
    /\ returnedWeekly =>
           /\ Len(ret.value) = 7
           /\ \A i \in 1..7 : ret.value[i].dayOfWeek = i - 1

\* analyzeWeeklyPatterns has returned, after analyzeDailyPatterns stored its
\* result, on a store whose samples lie in two hours and two days
C1_Witness ==
    /\ returnedWeekly
    /\ dailyPatterns # <<>>
    /\ Cardinality({ h \in Hours : inHour(h) # {} }) = 2
    /\ Cardinality({ d \in Days : inDay(d) # {} }) = 2

(* C2: every bucket with n >= 1 samples is returned with averageMood =      *)
(* round(raw * w + baseline * (1 - w)), raw the bucket's mean, baseline the *)
(* table's value, w = min(n/10, 0.8) for an hour and min(n/15, 0.7) for a   *)
(* day, and the same for averageEnergy; 20 samples at hour 9 with mood =    *)
(* energy = 80 give 76 and 76 for hour 9.                                   *)
C2_BlendFormula ==
    /\ returnedDaily =>
           \A h \in Hours :
               LET n == Cardinality(inHour(h)) IN
               n >= 1 =>
                   /\ isBlend(ret.value[h + 1].averageMood, moodSum(inHour(h)), n,
                              hourWeight(n), 10, tableHour(h).averageMood)
                   /\ isBlend(ret.value[h + 1].averageEnergy, energySum(inHour(h)), n,
                              hourWeight(n), 10, tableHour(h).averageEnergy)
    /\ returnedWeekly =>
           \A d \in Days :
               LET n == Cardinality(inDay(d)) IN
               n >= 1 =>
                   /\ isBlend(ret.value[d + 1].averageMood, moodSum(inDay(d)), n,
                              dayWeight(n), 30, tableDay(d).averageMood)
                   /\ isBlend(ret.value[d + 1].averageEnergy, energySum(inDay(d)), n,
                              dayWeight(n), 30, tableDay(d).averageEnergy)
    /\ ( /\ returnedDaily
         /\ Len(entries) = 20
         /\ \A j \in 1..Len(entries) :
                /\ j \in inHour(9)
                /\ entries[j].mood = 80
                /\ entries[j].energy = 80 )
       => /\ ret.value[10].averageMood = 76
          /\ ret.value[10].averageEnergy = 76

\* analyzeDailyPatterns has returned on 20 samples, all at hour 9 with mood =
\* energy = 80
C2_Witness ==
    /\ returnedDaily
    /\ Len(entries) = 20
    /\ \A j \in 1..Len(entries) :
           j \in inHour(9) /\ entries[j].mood = 80 /\ entries[j].energy = 80
    /\ ret.value[10].entryCount = 20

(* C3, as claimed: the blended averageMood (averageEnergy) of a bucket with *)
(* samples lies between min(raw, baseline) and max(raw, baseline); stated   *)
(* on n * value, n * raw = sum and n * baseline.                            *)
between(x, a, b) == Min(a, b) <= x /\ x <= Max(a, b)

C3_AsClaimed ==
    /\ returnedDaily =>
           \A h \in Hours :
               LET n == Cardinality(inHour(h)) IN
               n >= 1 =>
                   /\ between(n * ret.value[h + 1].averageMood,
                              moodSum(inHour(h)), n * tableHour(h).averageMood)
                   /\ between(n * ret.value[h + 1].averageEnergy,
                              energySum(inHour(h)), n * tableHour(h).averageEnergy)
    /\ returnedWeekly =>
           \A d \in Days :
               LET n == Cardinality(inDay(d)) IN
               n >= 1 =>
                   /\ between(n * ret.value[d + 1].averageMood,
                              moodSum(inDay(d)), n * tableDay(d).averageMood)
                   /\ between(n * ret.value[d + 1].averageEnergy,
                              energySum(inDay(d)), n * tableDay(d).averageEnergy)

\* floor(sum/n) and ceil(sum/n) for sum >= 0, n > 0
floorDiv(sum, n) == sum \div n
ceilDiv(sum, n) == (sum + n - 1) \div n

\* floor(min(raw, baseline)) <= x <= ceil(max(raw, baseline)), baseline an integer
betweenRounded(x, sum, n, baseline) ==
    /\ Min(floorDiv(sum, n), baseline) <= x
    /\ x <= Max(ceilDiv(sum, n), baseline)

(* C3, amended: the blended averageMood (averageEnergy) of a bucket with    *)
(* samples lies between floor(min(raw, baseline)) and ceil(max(raw,         *)
(* baseline)): Math.round can carry the blend past a mean that is not an    *)
(* integer, never past the integers around it.                              *)
C3_BlendBound ==
    /\ returnedDaily =>
           \A h \in Hours :
               LET n == Cardinality(inHour(h)) IN
               n >= 1 =>
                   /\ betweenRounded(ret.value[h + 1].averageMood,
                                     moodSum(inHour(h)), n, tableHour(h).averageMood)
                   /\ betweenRounded(ret.value[h + 1].averageEnergy,
                                     energySum(inHour(h)), n, tableHour(h).averageEnergy)
    /\ returnedWeekly =>
           \A d \in Days :
               LET n == Cardinality(inDay(d)) IN
               n >= 1 =>
                   /\ betweenRounded(ret.value[d + 1].averageMood,
                                     moodSum(inDay(d)), n, tableDay(d).averageMood)
                   /\ betweenRounded(ret.value[d + 1].averageEnergy,
                                     energySum(inDay(d)), n, tableDay(d).averageEnergy)

\* analyzeDailyPatterns has returned for an hour whose mean mood is not an
\* integer and lies under the baseline, and the blend is under that mean
C3_Witness ==
    /\ returnedDaily
    /\ \E h \in Hours :
           LET n == Cardinality(inHour(h)) IN
           /\ n >= 1
           /\ moodSum(inHour(h)) % n # 0
           /\ moodSum(inHour(h)) < n * tableHour(h).averageMood
           /\ n * ret.value[h + 1].averageMood < moodSum(inHour(h))

(* C4: a bucket with no sample is returned as its baseline entry, verbatim, *)
(* with entryCount = 0; with no stored sample every returned entry is the   *)
(* table's.                                                                 *)
C4_BaselineFallback ==
    /\ returnedDaily =>
           \A h \in Hours :
               inHour(h) = {} =>
                   /\ ret.value[h + 1] = tableHour(h)
                   /\ ret.value[h + 1].entryCount = 0
    /\ returnedWeekly =>
           \A d \in Days :
               inDay(d) = {} =>
                   /\ ret.value[d + 1] = tableDay(d)
                   /\ ret.value[d + 1].entryCount = 0

\* analyzeDailyPatterns has returned on the empty store
C4_Witness ==
    /\ returnedDaily
    /\ entries = <<>>
    /\ \A h \in Hours : ret.value[h + 1] = tableHour(h)

-----------------------------------------------------------------------------
(* Vocabulary of the forecast properties *)

returnedPredictions == ret.op = "generatePredictions"
returnedDips == ret.op = "findEnergyDips"

\* the forecast of the call that returned: generatePredictions' result, or the
\* forecast findEnergyDips obtained from generatePredictions(12)
forecast ==
    IF returnedPredictions THEN ret.value
    ELSE IF returnedDips THEN ret.predictions ELSE <<>>

\* the hour and the day of the week of step i of a forecast made now
stepHour(i) == ((now + i * HourMs) \div HourMs) % 24
stepDay(i) == (((now + i * HourMs) \div DayMs) + 4) % 7

\* the stored daily (weekly) patterns are the baseline table, hour by hour
storedDailyIsDefault ==
    /\ Len(dailyPatterns) = 24
    /\ \A h \in Hours : dailyPatterns[h + 1] = tableHour(h)
storedWeeklyIsDefault ==
    /\ Len(weeklyPatterns) = 7
    /\ \A d \in Days : weeklyPatterns[d + 1] = tableDay(d)

\* p's mood and energy are those of the average of the entries hp and dp, plus
\* the variation of step i under the draws, clamped to [10, 90] and rounded
isUntrendedPoint(p, hp, dp, i, draw) ==
    LET variation == getTimeBasedVariation(stepHour(i), i, draw)
        mood == (hp.averageMood + dp.averageMood) * (Unit \div 2) + variation.mood
        energy == (hp.averageEnergy + dp.averageEnergy) * (Unit \div 2) + variation.energy
        bounded(v) == IF v < 10 * Unit THEN 10 * Unit
                      ELSE IF v > 90 * Unit THEN 90 * Unit ELSE v
    IN  /\ isRounded(p.predictedMood, bounded(mood), Unit)
        /\ isRounded(p.predictedEnergy, bounded(energy), Unit)

-----------------------------------------------------------------------------
(* C5: every point of a forecast has integer predictedMood and              *)
(* predictedEnergy in [10, 90] and a confidence in [0, 1] (in hundredths:   *)
(* 0..100), whatever the store, the horizon and the draws.                  *)
C5_ForecastBounds ==
    \A i \in 1..Len(forecast) :
        /\ forecast[i].predictedMood \in 10..90
        /\ forecast[i].predictedEnergy \in 10..90
        /\ forecast[i].confidence \in 0..100

\* a forecast holds a point whose energy was clamped to 90 and whose
\* confidence is 1
C5_Witness ==
    /\ returnedPredictions
    /\ \E i \in 1..Len(ret.value) :
           /\ ret.value[i].predictedEnergy = 90
           /\ ret.value[i].confidence = 100
           /\ (hourPatternFor(dailyPatterns, stepHour(i)).averageEnergy
               + dayPatternFor(weeklyPatterns, stepDay(i)).averageEnergy) > 2 * 90

(* C6: generatePredictions(N), N >= 1, returns exactly N points, the i-th   *)
(* with timestamp now + i * 3600000: strictly increasing, an hour apart,    *)
(* starting an hour after the call.                                         *)
C6_HourlyTimestamps ==
    (returnedPredictions /\ ret.hoursAhead >= 1) =>
        /\ Len(ret.value) = ret.hoursAhead
        /\ \A i \in 1..Len(ret.value) : ret.value[i].timestamp = now + i * 3600000
        /\ \A i \in 1..(Len(ret.value) - 1) :
               ret.value[i + 1].timestamp = ret.value[i].timestamp + 3600000

\* a 12-hour forecast that runs past midnight
C6_Witness ==
    /\ returnedPredictions
    /\ ret.hoursAhead = 12
    /\ Len(ret.value) = 12
    /\ ret.value[1].timestamp = now + 3600000
    /\ stepDay(12) # stepDay(1)

\* the item findEnergyDips reports for a point, and whether it reported it
itemOf(p) ==
    [time |-> <<(p.timestamp \div HourMs) % 24, (p.timestamp \div MinuteMs) % 60>>,
     energy |-> p.predictedEnergy]
reported(p) == \E j \in 1..Len(ret.value) : ret.value[j] = itemOf(p)

\* the threshold of the claim: 30 if confidence > 0.7 and 35 otherwise
claimedThreshold(p) == IF p.confidence > 70 THEN 30 ELSE 35

point(energy, confidence) ==
    [timestamp |-> 0, predictedMood |-> 50,
     predictedEnergy |-> energy, confidence |-> confidence]

(* C7, as claimed: findEnergyDips reports a forecast point exactly when its *)
(* predictedEnergy is at or under its threshold.                            *)
C7_AsClaimed ==
    returnedDips =>
        \A i \in 1..Len(ret.predictions) :
            reported(ret.predictions[i])
                <=> ret.predictions[i].predictedEnergy <= claimedThreshold(ret.predictions[i])

(* C7, amended: findEnergyDips reports a forecast point exactly when its    *)
(* predictedEnergy is strictly under its threshold, 30 if the confidence is *)
(* over 0.7 and 35 otherwise: energy 25 at 0.9 and 32 at 0.5 are dips,      *)
(* energy 40 at 0.9 is not, and neither is a point at its threshold (30 at  *)
(* 0.9, 35 at 0.5).                                                         *)
C7_DipThreshold ==
    /\ returnedDips =>
           \A i \in 1..Len(ret.predictions) :
               reported(ret.predictions[i])
                   <=> ret.predictions[i].predictedEnergy
                           < claimedThreshold(ret.predictions[i])
    /\ isEnergyDip(point(25, 90))
    /\ isEnergyDip(point(32, 50))
    /\ ~isEnergyDip(point(40, 90))
    /\ ~isEnergyDip(point(30, 90))
    /\ ~isEnergyDip(point(35, 50))

\* findEnergyDips has reported a dip and left out a point that sits exactly at
\* its threshold
C7_Witness ==
    /\ returnedDips
    /\ ret.value # <<>>
    /\ \E i \in 1..Len(ret.predictions) :
           /\ ret.predictions[i].predictedEnergy = claimedThreshold(ret.predictions[i])
           /\ ~reported(ret.predictions[i])

(* C8, as claimed: generatePredictions called with hoursAhead <= 0 fails    *)
(* with InvalidRange instead of returning a result.                         *)
C8_AsClaimed ==
    (returnedPredictions /\ ret.hoursAhead <= 0) => ret.outcome = "InvalidRange"

(* C8, amended: generatePredictions called with hoursAhead <= 0 does not    *)
(* fail: it returns the empty list.                                         *)
C8_EmptyForecast ==
    (returnedPredictions /\ ret.hoursAhead <= 0) =>
        /\ ret.outcome = "resolved"
        /\ ret.value = <<>>

\* generatePredictions(-1) has returned on a store that holds samples and
\* patterns
C8_Witness ==
    /\ returnedPredictions
    /\ ret.hoursAhead < 0
    /\ ret.value = <<>>
    /\ entries # <<>>
    /\ dailyPatterns # <<>>

(* C9: generatePredictions never fails for want of pattern data.  The       *)
(* pattern it uses for an hour (a day) is the stored entry if there is one, *)
(* else the baseline table's entry, else - for a key the table lacks - the  *)
(* neutral entry {50, 50} ({60, 60}); and it emits a point for every step:  *)
(* with no stored patterns (and too few samples for a trend) every point is *)
(* the one the baseline table gives.                                        *)
C9_PatternFallback ==
    /\ \A h \in Hours :
           hourPatternFor(dailyPatterns, h) =
               IF \E j \in 1..Len(dailyPatterns) : dailyPatterns[j].hour = h
               THEN dailyPatterns[CHOOSE j \in 1..Len(dailyPatterns) :
                                      dailyPatterns[j].hour = h]
               ELSE tableHour(h)
    /\ \A d \in Days :
           dayPatternFor(weeklyPatterns, d) =
               IF \E j \in 1..Len(weeklyPatterns) : weeklyPatterns[j].dayOfWeek = d
               THEN weeklyPatterns[CHOOSE j \in 1..Len(weeklyPatterns) :
                                       weeklyPatterns[j].dayOfWeek = d]
               ELSE tableDay(d)
    /\ hourPatternFor(<<>>, 24) =
           [hour |-> 24, averageMood |-> 50, averageEnergy |-> 50, entryCount |-> 0]
    /\ dayPatternFor(<<>>, 7) =
           [dayOfWeek |-> 7, averageMood |-> 60, averageEnergy |-> 60, entryCount |-> 0]
    /\ (returnedPredictions /\ ret.hoursAhead >= 1) =>
           /\ ret.outcome = "resolved"
           /\ Len(ret.value) = ret.hoursAhead
           /\ (dailyPatterns = <<>> /\ weeklyPatterns = <<>> /\ Len(entries) < 3) =>
                  \A i \in 1..Len(ret.value) :
                      isUntrendedPoint(ret.value[i], tableHour(stepHour(i)),
                                       tableDay(stepDay(i)), i, ret.noise[i])

\* a 12-hour forecast made while no pattern summary was stored
C9_Witness ==
    /\ returnedPredictions
    /\ dailyPatterns = <<>>
    /\ weeklyPatterns = <<>>
    /\ Len(entries) < 3
    /\ ret.hoursAhead = 12
    /\ Len(ret.value) = 12

(* C10: with no stored sample and all-default stored patterns,              *)
(* generatePredictions(1) returns one point of confidence 0.6 exactly, with *)
(* no trend adjustment: its mood and energy are the average of the baseline *)
(* entries of the future hour and the future day, plus the variation of the *)
(* step, clamped and rounded.                                               *)
C10_DefaultForecast ==
    ( /\ returnedPredictions
      /\ ret.hoursAhead = 1
      /\ entries = <<>>
      /\ storedDailyIsDefault
      /\ storedWeeklyIsDefault )
    => /\ Len(ret.value) = 1
       /\ ret.value[1].confidence = 60
       /\ isUntrendedPoint(ret.value[1], tableHour(stepHour(1)), tableDay(stepDay(1)),
                           1, ret.noise[1])

\* generatePredictions(1) has returned on the empty store with both default
\* pattern summaries stored
C10_Witness ==
    /\ returnedPredictions
    /\ ret.hoursAhead = 1
    /\ entries = <<>>
    /\ storedDailyIsDefault
    /\ storedWeeklyIsDefault
    /\ Len(ret.value) = 1

-----------------------------------------------------------------------------
(* C11: the data weight never exceeds its cap, 0.8 for an hour bucket (8    *)
(* tenths) and 0.7 for a day bucket (21 thirtieths), so the baseline keeps  *)
(* a weight of at least 0.2, resp. 0.3; and once a bucket has reached the   *)
(* cap, a bucket of more samples with the same mean would be returned with  *)
(* the same averageMood and averageEnergy.                                  *)
C11_WeightCap ==
    /\ \A n \in 0..(MaxInit + MaxSaves) :
           /\ dailyDataWeight(n) <= 8
           /\ 10 - dailyDataWeight(n) >= 2
           /\ weeklyDataWeight(n) <= 21
           /\ 30 - weeklyDataWeight(n) >= 9
    /\ returnedDaily =>
           \A h \in Hours :
               LET n == Cardinality(inHour(h)) IN
               10 * n >= 8 * 10 =>
                   \A m \in n..(2 * n) :
                       ((m * moodSum(inHour(h))) % n = 0
                            /\ (m * energySum(inHour(h))) % n = 0) =>
                           /\ ret.value[h + 1].averageMood =
                                  blend((m * moodSum(inHour(h))) \div n, m,
                                        dailyDataWeight(m), 10, tableHour(h).averageMood)
                           /\ ret.value[h + 1].averageEnergy =
                                  blend((m * energySum(inHour(h))) \div n, m,
                                        dailyDataWeight(m), 10, tableHour(h).averageEnergy)
    /\ returnedWeekly =>
           \A d \in Days :
               LET n == Cardinality(inDay(d)) IN
               10 * n >= 7 * 15 =>
                   \A m \in n..(2 * n) :
                       ((m * moodSum(inDay(d))) % n = 0
                            /\ (m * energySum(inDay(d))) % n = 0) =>
                           /\ ret.value[d + 1].averageMood =
                                  blend((m * moodSum(inDay(d))) \div n, m,
                                        weeklyDataWeight(m), 30, tableDay(d).averageMood)
                           /\ ret.value[d + 1].averageEnergy =
                                  blend((m * energySum(inDay(d))) \div n, m,
                                        weeklyDataWeight(m), 30, tableDay(d).averageEnergy)

\* analyzeWeeklyPatterns has returned for a day that holds more than 15
\* samples, and analyzeDailyPatterns stored an hour of more than 10 samples
C11_Witness ==
    /\ returnedWeekly
    /\ \E d \in Days :
           /\ Cardinality(inDay(d)) > 15
           /\ ret.value[d + 1].entryCount > 15
    /\ \E j \in 1..Len(dailyPatterns) : dailyPatterns[j].entryCount > 10

-----------------------------------------------------------------------------
(* Vocabulary of the frame properties *)

analysisOps == { "analyzeDailyPatterns", "analyzeWeeklyPatterns" }
forecastOps == { "generatePredictions", "findEnergyDips" }

\* the step is one call of an operation among ops: the caller held no result
\* before it and holds the operation's result after it
isCallOf(ops) == ret.op = "none" /\ ret'.op \in ops

(* C13, as claimed: a call of analyzeDailyPatterns, analyzeWeeklyPatterns,  *)
(* generatePredictions or findEnergyDips leaves every key of the store      *)
(* unchanged.                                                               *)
C13_AsClaimed ==
    [][isCallOf(analysisOps \cup forecastOps) => UNCHANGED store]_vars

(* C13, amended: generatePredictions and findEnergyDips leave every key of  *)
(* the store unchanged; analyzeDailyPatterns overwrites the daily-patterns  *)
(* key with the summaries it returns and leaves the other keys unchanged,   *)
(* and analyzeWeeklyPatterns does the same with the weekly-patterns key.    *)
C13_CoreFrame ==
    [][ /\ isCallOf(forecastOps) => UNCHANGED store
        /\ isCallOf({"analyzeDailyPatterns"}) =>
               /\ dailyPatterns' = ret'.value
               /\ UNCHANGED <<entries, lastEntry, weeklyPatterns>>
        /\ isCallOf({"analyzeWeeklyPatterns"}) =>
               /\ weeklyPatterns' = ret'.value
               /\ UNCHANGED <<entries, lastEntry, dailyPatterns>>
      ]_vars

\* analyzeDailyPatterns has returned summaries that differ from the baseline
\* table and the daily-patterns key holds them
C13_Witness ==
    /\ returnedDaily
    /\ dailyPatterns = ret.value
    /\ \E h \in Hours : dailyPatterns[h + 1] # tableHour(h)

(* C14: no call of analyzeDailyPatterns, analyzeWeeklyPatterns,             *)
(* generatePredictions or findEnergyDips adds, removes, reorders or changes *)
(* a stored sample: the entries list and the last-entry record are the same *)
(* after the call as before it.                                             *)
C14_SamplesUntouched ==
    [][isCallOf(analysisOps \cup forecastOps) =>
           (entries' = entries /\ lastEntry' = lastEntry)]_vars

\* findEnergyDips has returned on a store of more than 15 samples, after a
\* save and both analyses
C14_Witness ==
    /\ returnedDips
    /\ Len(entries) > 15
    /\ saves > 0
    /\ lastEntry = << entries[Len(entries)] >>
    /\ dailyPatterns # <<>>
    /\ weeklyPatterns # <<>>

-----------------------------------------------------------------------------
(* C17: the stored samples having integer mood and energy in [0, 100],      *)
(* every entry returned by analyzeDailyPatterns and analyzeWeeklyPatterns   *)
(* has integer averageMood and averageEnergy in [0, 100] and an entryCount  *)
(* equal to the number of stored samples of its hour, resp. of its day.     *)
C17_PatternRanges ==
    (\A j \in 1..Len(entries) :
         entries[j].mood \in 0..100 /\ entries[j].energy \in 0..100)
    => /\ returnedDaily =>
              \A h \in Hours :
                  /\ ret.value[h + 1].averageMood \in 0..100
                  /\ ret.value[h + 1].averageEnergy \in 0..100
                  /\ ret.value[h + 1].entryCount = Cardinality(inHour(h))
       /\ returnedWeekly =>
              \A d \in Days :
                  /\ ret.value[d + 1].averageMood \in 0..100
                  /\ ret.value[d + 1].averageEnergy \in 0..100
                  /\ ret.value[d + 1].entryCount = Cardinality(inDay(d))

\* analyzeWeeklyPatterns has returned for a day that holds a sample of energy 0
\* and a sample of energy 100
C17_Witness ==
    /\ returnedWeekly
    /\ \E d \in Days :
           /\ \E j \in inDay(d) : entries[j].energy = 0
           /\ \E j \in inDay(d) : entries[j].energy = 100
           /\ ret.value[d + 1].entryCount = Cardinality(inDay(d))

-----------------------------------------------------------------------------
(* Vocabulary of C18 *)

\* ps is the daily (weekly) summary the stored samples determine: for each key
\* the table's entry if no sample falls under it, else the sample count and the
\* rounded blends of the samples' means with the table's values
isDailySummary(ps) ==
    /\ Len(ps) = 24
    /\ \A h \in Hours :
           LET n == Cardinality(inHour(h)) IN
           IF n = 0 THEN ps[h + 1] = tableHour(h)
           ELSE /\ DOMAIN ps[h + 1] = DOMAIN tableHour(h)
                /\ ps[h + 1].hour = h
                /\ ps[h + 1].entryCount = n
                /\ isBlend(ps[h + 1].averageMood, moodSum(inHour(h)), n,
                           hourWeight(n), 10, tableHour(h).averageMood)
                /\ isBlend(ps[h + 1].averageEnergy, energySum(inHour(h)), n,
                           hourWeight(n), 10, tableHour(h).averageEnergy)
isWeeklySummary(ps) ==
    /\ Len(ps) = 7
    /\ \A d \in Days :
           LET n == Cardinality(inDay(d)) IN
           IF n = 0 THEN ps[d + 1] = tableDay(d)
           ELSE /\ DOMAIN ps[d + 1] = DOMAIN tableDay(d)
                /\ ps[d + 1].dayOfWeek = d
                /\ ps[d + 1].entryCount = n
                /\ isBlend(ps[d + 1].averageMood, moodSum(inDay(d)), n,
                           dayWeight(n), 30, tableDay(d).averageMood)
                /\ isBlend(ps[d + 1].averageEnergy, energySum(inDay(d)), n,
                           dayWeight(n), 30, tableDay(d).averageEnergy)

(* C18: the summaries analyzeDailyPatterns (analyzeWeeklyPatterns) returns  *)
(* and stores are those the stored samples determine, whatever summaries    *)
(* were stored before the call (none, stale ones, current ones); so a call  *)
(* made while the stored summaries are those of the stored samples returns  *)
(* and stores summaries equal to them.                                      *)
C18_FreshAnalysis ==
    [][ /\ isCallOf({"analyzeDailyPatterns"}) =>
               /\ isDailySummary(ret'.value)
               /\ dailyPatterns' = ret'.value
               /\ isDailySummary(dailyPatterns) =>
                      (ret'.value = dailyPatterns /\ dailyPatterns' = dailyPatterns)
        /\ isCallOf({"analyzeWeeklyPatterns"}) =>
               /\ isWeeklySummary(ret'.value)
               /\ weeklyPatterns' = ret'.value
               /\ isWeeklySummary(weeklyPatterns) =>
                      (ret'.value = weeklyPatterns /\ weeklyPatterns' = weeklyPatterns)
      ]_vars

\* analyzeDailyPatterns has returned the summary of samples saved after the
\* weekly summaries were stored: the stored weekly summaries are stale
C18_Witness ==
    /\ returnedDaily
    /\ saves > 0
    /\ isDailySummary(ret.value)
    /\ dailyPatterns = ret.value
    /\ weeklyPatterns # <<>>
    /\ ~isWeeklySummary(weeklyPatterns)

-----------------------------------------------------------------------------
(* Vocabulary of C20 *)

\* the pattern a forecast uses for an hour (a day): the stored entry if there is
\* one, else the table's
patternOfHour(h) ==
    IF \E j \in 1..Len(dailyPatterns) : dailyPatterns[j].hour = h
    THEN dailyPatterns[CHOOSE j \in 1..Len(dailyPatterns) : dailyPatterns[j].hour = h]
    ELSE tableHour(h)
patternOfDay(d) ==
    IF \E j \in 1..Len(weeklyPatterns) : weeklyPatterns[j].dayOfWeek = d
    THEN weeklyPatterns[CHOOSE j \in 1..Len(weeklyPatterns) :
                            weeklyPatterns[j].dayOfWeek = d]
    ELSE tableDay(d)

\* the confidence of the claim, in sixtieths: 0.6 = 36/60, 0.1 = 6/60,
\* min(hc/10, 1) / 2 = min(3 * hc, 30) / 60, min(dc/15, 1) / 2 = min(2 * dc, 30) / 60
claimedConfidence(hc, dc, trended) ==
    LET half(x) == IF x <= 30 THEN x ELSE 30
        data == half(3 * hc) + half(2 * dc)
        c == IF hc = 0 /\ dc = 0 THEN 36
             ELSE IF data >= 36 THEN data ELSE 36
    IN  IF ~trended THEN c
        ELSE IF c + 6 <= 60 THEN c + 6 ELSE 60

(* C20: the confidence of each forecast point is c rounded to 2 decimals,   *)
(* where c = 0.6 when the hour pattern and the day pattern both have        *)
(* entryCount 0, else max(0.6, (min(hourCount/10, 1) + min(dayCount/15, 1)) *)
(* / 2), raised to min(1, c + 0.1) when the trend step is applied (at least *)
(* 3 stored samples); so it lies in [0.6, 1.0] and is at least 0.7 whenever *)
(* at least 3 samples are stored.                                           *)
C20_Confidence ==
    \A i \in 1..Len(forecast) :
        LET c == claimedConfidence(patternOfHour(stepHour(i)).entryCount,
                                   patternOfDay(stepDay(i)).entryCount,
                                   Len(entries) >= 3)
        IN  /\ isRounded(forecast[i].confidence, 100 * c, 60)
            /\ forecast[i].confidence \in 60..100
            /\ Len(entries) >= 3 => forecast[i].confidence >= 70

\* a forecast holds a point for which both patterns count samples and whose
\* confidence is neither the floor, nor the floor raised by 0.1, nor the cap
C20_Witness ==
    /\ returnedPredictions
    /\ Len(entries) >= 3
    /\ \E i \in 1..Len(ret.value) :
           /\ patternOfHour(stepHour(i)).entryCount > 0
           /\ patternOfDay(stepDay(i)).entryCount > 0
           /\ ret.value[i].confidence \notin {60, 70, 100}

-----------------------------------------------------------------------------
(* A session in which a stored sample is saved again: saveEntry is given an *)
(* entry whose id and timestamp are those of a stored one, so that          *)
(* [...entries.filter(e => e.id !== entry.id), entry] moves it to the end   *)

\* the numbers of samples stored when the session starts: fewer than the 6 a
\* trend looks at, exactly 6, and more than the 10 of slice(-10)
ResaveStored == { 4, 6, 11 }

\* k samples saved a minute apart, the mood rising and the energy falling
rampEntries(k) ==
    [j \in 1..k |-> [id |-> j,
                     timestamp |-> FirstSaveTime + (j - 1) * MinuteMs,
                     mood |-> 8 * j,
                     energy |-> 100 - 8 * j]]

ResaveInit ==
    \E k \in ResaveStored, delay \in SessionDelays :
        /\ entries = rampEntries(k)
        /\ lastEntry = << rampEntries(k)[k] >>
        /\ dailyPatterns = <<>>
        /\ weeklyPatterns = <<>>
        /\ now = FirstSaveTime + k * MinuteMs + delay
        /\ saves = 0
        /\ ret = [op |-> "none"]
        /\ tables = [daily |-> DEFAULT_DAILY_PATTERNS, weekly |-> DEFAULT_WEEKLY_PATTERNS]
        /\ calls = <<>>
        /\ origin = <<>>

ResaveNext ==
    \/ \E j \in 1..Len(entries) : saveEntry(entries[j])
    \/ \E hoursAhead \in HoursAheadArgs :
           \E noise \in NoiseStreams(hoursAhead) : generatePredictions(hoursAhead, noise)
    \/ takeResult

ResaveSpec == ResaveInit /\ [][ResaveNext]_vars

\* the samples of es in the order of their timestamps (ties in stored order)
RECURSIVE byTimestamp(_)
byTimestamp(es) ==
    IF es = <<>> THEN <<>>
    ELSE LET first == CHOOSE i \in 1..Len(es) :
                          /\ \A j \in 1..Len(es) : es[i].timestamp <= es[j].timestamp
                          /\ \A j \in 1..(i - 1) : es[j].timestamp > es[i].timestamp
             rest == [j \in 1..(Len(es) - 1) |-> IF j < first THEN es[j] ELSE es[j + 1]]
         IN  << es[first] >> \o byTimestamp(rest)

(* C15: the forecast does not depend on the order in which the samples are  *)
(* stored: generatePredictions returns the forecast it would return if the  *)
(* stored list were in timestamp order (the trend taken over the 10 samples *)
(* with the greatest timestamps, in timestamp order), for the same noise.   *)
C15_OrderIndependence ==
    returnedPredictions =>
        ret.value = computePredictions(dailyPatterns, weeklyPatterns,
                                       byTimestamp(entries), now,
                                       ret.hoursAhead, ret.noise)

-----------------------------------------------------------------------------
(* The graph component's effect, InteractiveGraphTracker.loadPredictions:   *)
(* generatePredictions(12) and then findEnergyDips(), which calls           *)
(* generatePredictions(12) itself, with draws of its own                    *)

\* loadPredictions(): predictionData goes to setPredictions, the first dip's
\* time to setEnergyDipTime
loadPredictions(noise, noiseOfDips) ==
    LET predictionData == computePredictions(getDailyPatterns, getWeeklyPatterns,
                                             getEntries, now, 12, noise)
        energyDips == energyDipsOf(computePredictions(getDailyPatterns, getWeeklyPatterns,
                                                      getEntries, now, 12, noiseOfDips))
    IN  /\ ret.op = "none"
        /\ ret' = [op |-> "loadPredictions",
                   predictions |-> predictionData,
                   energyDips |-> energyDips,
                   energyDipTime |-> IF Len(energyDips) > 0 THEN << energyDips[1].time >>
                                     ELSE <<>>]
        /\ UNCHANGED <<entries, lastEntry, dailyPatterns, weeklyPatterns, now, saves>>
        /\ UNCHANGED <<tables, calls, origin>>

GraphNext ==
    \/ \E noise \in NoiseStreams(12), noiseOfDips \in NoiseStreams(12) :
           loadPredictions(noise, noiseOfDips)
    \/ analyzeDailyPatterns
    \/ analyzeWeeklyPatterns
    \/ takeResult

GraphSpec == Init /\ [][GraphNext]_vars

\* the items of the points of a forecast that meet the dip condition, in the
\* forecast's order
dipsOfForecast(ps) ==
    LET Meets(p) == p.predictedEnergy < claimedThreshold(p)
        met == SelectSeq(ps, Meets)
    IN  [i \in 1..Len(met) |-> itemOf(met[i])]

(* C16: findEnergyDips is a pure filter over a forecast, and the dips a     *)
(* caller is given are those of the forecast it obtained from               *)
(* generatePredictions: the order-preserving subsequence of its points that *)
(* meet the dip condition, each with that point's predictedEnergy, none     *)
(* left out, and the empty list if none qualifies.                          *)
C16_DipsOfCallersForecast ==
    ret.op = "loadPredictions" =>
        /\ Len(ret.predictions) = 12
        /\ ret.energyDips = dipsOfForecast(ret.predictions)

-----------------------------------------------------------------------------
(* Callers that keep the pattern objects they are handed and write to them  *)

\* the hours and days getDefaultPatternForHour / getDefaultPatternForDay are
\* called with: keys of the tables, and one past the last key
DefaultHourArgs == { 3, 9, 24 }
DefaultDayArgs == { 0, 4, 7 }

\* PatternPredictor.getDefaultPatternForHour(hour), called by a caller
defaultPatternForHour(hour) ==
    /\ ret.op = "none"
    /\ ret' = [op |-> "getDefaultPatternForHour", hour |-> hour,
               value |-> << getDefaultPatternForHour(hour) >>,
               objects |-> << defaultDailyObject(hour) >>]
    /\ UNCHANGED <<entries, lastEntry, dailyPatterns, weeklyPatterns, now, saves>>
    /\ UNCHANGED <<tables, calls, origin>>

\* PatternPredictor.getDefaultPatternForDay(dayOfWeek), called by a caller
defaultPatternForDay(day) ==
    /\ ret.op = "none"
    /\ ret' = [op |-> "getDefaultPatternForDay", day |-> day,
               value |-> << getDefaultPatternForDay(day) >>,
               objects |-> << defaultWeeklyObject(day) >>]
    /\ UNCHANGED <<entries, lastEntry, dailyPatterns, weeklyPatterns, now, saves>>
    /\ UNCHANGED <<tables, calls, origin>>

\* the caller assigns averageEnergy = 100 to the first entry it was handed:
\* the assignment writes the object the entry is, a table's object included
assignReturned ==
    LET daily == ret.op \in { "analyzeDailyPatterns", "getDefaultPatternForHour" }
        object == ret.objects[1]
    IN  /\ ret.op \in { "analyzeDailyPatterns", "analyzeWeeklyPatterns",
                        "getDefaultPatternForHour", "getDefaultPatternForDay" }
        /\ ret.value[1].averageEnergy # 100
        /\ ret' = [ret EXCEPT !.value[1].averageEnergy = 100]
        /\ tables' = IF object = 0 THEN tables
                     ELSE IF daily
                          THEN [tables EXCEPT !.daily[object].averageEnergy = 100]
                          ELSE [tables EXCEPT !.weekly[object].averageEnergy = 100]
        /\ UNCHANGED <<entries, lastEntry, dailyPatterns, weeklyPatterns, now, saves>>
        /\ UNCHANGED <<calls, origin>>

CallerNext ==
    \/ analyzeDailyPatterns
    \/ analyzeWeeklyPatterns
    \/ \E hour \in DefaultHourArgs : defaultPatternForHour(hour)
    \/ \E day \in DefaultDayArgs : defaultPatternForDay(day)
    \/ assignReturned
    \/ takeResult

CallerSpec == Init /\ [][CallerNext]_vars

(* C19: the baseline tables are read-only and every call returns new        *)
(* objects: no entry returned by analyzeDailyPatterns,                      *)
(* analyzeWeeklyPatterns, getDefaultPatternForHour or                       *)
(* getDefaultPatternForDay is an object of DEFAULT_DAILY_PATTERNS or        *)
(* DEFAULT_WEEKLY_PATTERNS, and the tables keep the contents they were      *)
(* initialised with whatever a caller writes to the entries it was handed.  *)
C19_TablesReadOnly ==
    /\ ret.op \in { "analyzeDailyPatterns", "analyzeWeeklyPatterns",
                    "getDefaultPatternForHour", "getDefaultPatternForDay" } =>
           \A i \in 1..Len(ret.objects) : ret.objects[i] = 0
    /\ tables = [daily |-> DEFAULT_DAILY_PATTERNS, weekly |-> DEFAULT_WEEKLY_PATTERNS]

-----------------------------------------------------------------------------
(* Concurrent callers.  Every operation is an async function: it runs up to *)
(* its next await, and each AsyncStorage call it awaits takes effect at     *)
(* some point between its start and its completion, so the storage calls of *)
(* the operations in flight interleave.  calls holds, for each call made,   *)
(* the storage call it is waiting for (pc) and its locals; a call starts    *)
(* with its first storage call.                                             *)

\* the calls made in a session
MaxCalls == 3

\* the numbers of samples stored when the callers start
ConcStored == { 0, 2 }

ConcInit ==
    \E k \in ConcStored, slider \in InitSliders :
        /\ entries = initialEntries(k, slider)
        /\ lastEntry = (IF k = 0 THEN <<>> ELSE << initialEntries(k, slider)[k] >>)
        /\ dailyPatterns = <<>>
        /\ weeklyPatterns = <<>>
        /\ now = FirstSaveTime + k * MinuteMs
        /\ saves = 0
        /\ ret = [op |-> "none"]
        /\ tables = [daily |-> DEFAULT_DAILY_PATTERNS, weekly |-> DEFAULT_WEEKLY_PATTERNS]
        /\ calls = <<>>
        /\ origin = [entries |-> initialEntries(k, slider), daily |-> <<>>, weekly |-> <<>>]

\* the call c moves on to wait for its next storage call, with locals updated
proceed(c, next) == calls' = [calls EXCEPT ![c] = next]

\* saveEntry(entry) up to its write: const entries = await this.getEntries()
\* and updatedEntries
startSaveEntry(entry) ==
    /\ Len(calls) < MaxCalls
    /\ saves < MaxSaves
    /\ calls' = Append(calls, [op |-> "saveEntry", pc |-> "setEntries", entry |-> entry,
                               updatedEntries |-> updatedEntries(getEntries, entry)])
    /\ saves' = saves + 1
    /\ UNCHANGED <<entries, lastEntry, dailyPatterns, weeklyPatterns, now, ret>>
    /\ UNCHANGED <<tables, origin>>

\* await AsyncStorage.setItem(STORAGE_KEYS.ENTRIES, ..)
saveEntrySetEntries(c) ==
    /\ calls[c].op = "saveEntry"
    /\ calls[c].pc = "setEntries"
    /\ entries' = calls[c].updatedEntries
    /\ proceed(c, [calls[c] EXCEPT !.pc = "setLastEntry"])
    /\ UNCHANGED <<lastEntry, dailyPatterns, weeklyPatterns, now, saves, ret>>
    /\ UNCHANGED <<tables, origin>>

\* await AsyncStorage.setItem(STORAGE_KEYS.LAST_ENTRY, ..)
saveEntrySetLastEntry(c) ==
    /\ calls[c].op = "saveEntry"
    /\ calls[c].pc = "setLastEntry"
    /\ lastEntry' = << calls[c].entry >>
    /\ proceed(c, [calls[c] EXCEPT !.pc = "done"])
    /\ UNCHANGED <<entries, dailyPatterns, weeklyPatterns, now, saves, ret>>
    /\ UNCHANGED <<tables, origin>>

\* analyzeDailyPatterns() up to its save: the read of the entries and the loop
startAnalyzeDailyPatterns ==
    /\ Len(calls) < MaxCalls
    /\ calls' = Append(calls, [op |-> "analyzeDailyPatterns", pc |-> "saveDailyPatterns",
                               value |-> computeDailyPatterns(getEntries)])
    /\ UNCHANGED <<entries, lastEntry, dailyPatterns, weeklyPatterns, now, saves, ret>>
    /\ UNCHANGED <<tables, origin>>

\* await LocalStateManager.saveDailyPatterns(dailyPatterns); return dailyPatterns
analyzeDailyPatternsSave(c) ==
    /\ calls[c].op = "analyzeDailyPatterns"
    /\ calls[c].pc = "saveDailyPatterns"
    /\ dailyPatterns' = calls[c].value
    /\ proceed(c, [calls[c] EXCEPT !.pc = "done"])
    /\ UNCHANGED <<entries, lastEntry, weeklyPatterns, now, saves, ret>>
    /\ UNCHANGED <<tables, origin>>

\* analyzeWeeklyPatterns() up to its save: the read of the entries and the loop
startAnalyzeWeeklyPatterns ==
    /\ Len(calls) < MaxCalls
    /\ calls' = Append(calls, [op |-> "analyzeWeeklyPatterns", pc |-> "saveWeeklyPatterns",
                               value |-> computeWeeklyPatterns(getEntries)])
    /\ UNCHANGED <<entries, lastEntry, dailyPatterns, weeklyPatterns, now, saves, ret>>
    /\ UNCHANGED <<tables, origin>>

\* await LocalStateManager.saveWeeklyPatterns(weeklyPatterns); return weeklyPatterns
analyzeWeeklyPatternsSave(c) ==
    /\ calls[c].op = "analyzeWeeklyPatterns"
    /\ calls[c].pc = "saveWeeklyPatterns"
    /\ weeklyPatterns' = calls[c].value
    /\ proceed(c, [calls[c] EXCEPT !.pc = "done"])
    /\ UNCHANGED <<entries, lastEntry, dailyPatterns, now, saves, ret>>
    /\ UNCHANGED <<tables, origin>>

\* generatePredictions(12), called directly or by findEnergyDips(), up to its
\* second read: const dailyPatterns = await LocalStateManager.getDailyPatterns()
startPredictions(op, noise) ==
    /\ Len(calls) < MaxCalls
    /\ calls' = Append(calls, [op |-> op, pc |-> "getWeeklyPatterns", noise |-> noise,
                               dailyPatterns |-> getDailyPatterns,
                               weeklyPatterns |-> <<>>, value |-> <<>>])
    /\ UNCHANGED <<entries, lastEntry, dailyPatterns, weeklyPatterns, now, saves, ret>>
    /\ UNCHANGED <<tables, origin>>

\* const weeklyPatterns = await LocalStateManager.getWeeklyPatterns()
predictionsGetWeeklyPatterns(c) ==
    /\ calls[c].op \in { "generatePredictions", "findEnergyDips" }
    /\ calls[c].pc = "getWeeklyPatterns"
    /\ proceed(c, [calls[c] EXCEPT !.pc = "getEntries",
                                   !.weeklyPatterns = getWeeklyPatterns])
    /\ UNCHANGED <<entries, lastEntry, dailyPatterns, weeklyPatterns, now, saves, ret>>
    /\ UNCHANGED <<tables, origin>>

\* const recentEntries = await LocalStateManager.getEntries(), the loop and the
\* return; findEnergyDips filters and maps the forecast it awaited
predictionsGetEntries(c) ==
    LET predictions == computePredictions(calls[c].dailyPatterns, calls[c].weeklyPatterns,
                                          getEntries, now, 12, calls[c].noise)
    IN  /\ calls[c].op \in { "generatePredictions", "findEnergyDips" }
        /\ calls[c].pc = "getEntries"
        /\ proceed(c, [calls[c] EXCEPT
                           !.pc = "done",
                           !.value = IF calls[c].op = "findEnergyDips"
                                     THEN energyDipsOf(predictions) ELSE predictions])
        /\ UNCHANGED <<entries, lastEntry, dailyPatterns, weeklyPatterns, now, saves, ret>>
        /\ UNCHANGED <<tables, origin>>

ConcNext ==
    \/ \E slider \in SaveSliders :
           startSaveEntry([id |-> MaxInit + 1 + saves, timestamp |-> now,
                           mood |-> slider.mood, energy |-> slider.energy])
    \/ startAnalyzeDailyPatterns
    \/ startAnalyzeWeeklyPatterns
    \/ \E op \in { "generatePredictions", "findEnergyDips" }, noise \in NoiseStreams(12) :
           startPredictions(op, noise)
    \/ \E c \in 1..Len(calls) : saveEntrySetEntries(c)
    \/ \E c \in 1..Len(calls) : saveEntrySetLastEntry(c)
    \/ \E c \in 1..Len(calls) : analyzeDailyPatternsSave(c)
    \/ \E c \in 1..Len(calls) : analyzeWeeklyPatternsSave(c)
    \/ \E c \in 1..Len(calls) : predictionsGetWeeklyPatterns(c)
    \/ \E c \in 1..Len(calls) : predictionsGetEntries(c)

ConcSpec == ConcInit /\ [][ConcNext]_vars

-----------------------------------------------------------------------------
(* Vocabulary of C12 *)

\* every call made has returned
allReturned == calls # <<>> /\ \A c \in 1..Len(calls) : calls[c].pc = "done"

\* the orders in which the calls made can be put one after the other
serialOrders ==
    { order \in [1..Len(calls) -> 1..Len(calls)] :
          \A i, j \in 1..Len(calls) : order[i] = order[j] => i = j }

\* the calls from position i of order on, run one after the other on the store
\* st, each from start to end before the next starts, return what they returned
RECURSIVE returnsSerially(_, _, _)
returnsSerially(st, order, i) ==
    IF i > Len(order) THEN TRUE
    ELSE LET c == calls[order[i]] IN
         CASE c.op = "saveEntry" ->
                  returnsSerially([st EXCEPT !.entries = updatedEntries(st.entries, c.entry)],
                                  order, i + 1)
           [] c.op = "analyzeDailyPatterns" ->
                  /\ c.value = computeDailyPatterns(st.entries)
                  /\ returnsSerially([st EXCEPT !.daily = c.value], order, i + 1)
           [] c.op = "analyzeWeeklyPatterns" ->
                  /\ c.value = computeWeeklyPatterns(st.entries)
                  /\ returnsSerially([st EXCEPT !.weekly = c.value], order, i + 1)
           [] c.op = "generatePredictions" ->
                  /\ c.value = computePredictions(st.daily, st.weekly, st.entries,
                                                  now, 12, c.noise)
                  /\ returnsSerially(st, order, i + 1)
           [] c.op = "findEnergyDips" ->
                  /\ c.value = energyDipsOf(computePredictions(st.daily, st.weekly, st.entries,
                                                               now, 12, c.noise))
                  /\ returnsSerially(st, order, i + 1)

(* C12: analyzeDailyPatterns, analyzeWeeklyPatterns, generatePredictions    *)
(* and findEnergyDips run concurrently with each other and with saveEntry   *)
(* in any interleaving of their storage calls, and the result of every call *)
(* is the one it would return in some serial order of the same calls: once  *)
(* all have returned, there is an order in which, run one after the other   *)
(* from the store they started on, each returns what it returned.           *)
C12_SerialResults ==
    allReturned => \E order \in serialOrders : returnsSerially(origin, order, 1)

-----------------------------------------------------------------------------
(* Vocabulary of C21 and C22 *)

\* the positions of the last 3 stored samples, and of the up to 3 before them
recentPositions == { j \in 1..Len(entries) : j >= Len(entries) - 2 }
olderPositions ==
    { j \in 1..Len(entries) : j >= Len(entries) - 5 /\ j <= Len(entries) - 3 }

\* the trends of the claim, in 1/Unit: mean(last 3) - mean(the up to 3 before),
\* 0 when there is none before
claimedMoodTrend ==
    IF olderPositions = {} THEN 0
    ELSE (Unit \div 3) * moodSum(recentPositions)
         - (Unit \div Cardinality(olderPositions)) * moodSum(olderPositions)
claimedEnergyTrend ==
    IF olderPositions = {} THEN 0
    ELSE (Unit \div 3) * energySum(recentPositions)
         - (Unit \div Cardinality(olderPositions)) * energySum(olderPositions)

\* p's mood and energy are those of the average of the entries hp and dp, plus
\* the claimed trends times w hundredths, plus the variation of step i under
\* the draws, clamped to [10, 90] and rounded
isTrendedPoint(p, hp, dp, i, draw, w) ==
    LET variation == getTimeBasedVariation(stepHour(i), i, draw)
        mood == (hp.averageMood + dp.averageMood) * (Unit \div 2)
                + (claimedMoodTrend * w) \div 100 + variation.mood
        energy == (hp.averageEnergy + dp.averageEnergy) * (Unit \div 2)
                  + (claimedEnergyTrend * w) \div 100 + variation.energy
        bounded(v) == IF v < 10 * Unit THEN 10 * Unit
                      ELSE IF v > 90 * Unit THEN 90 * Unit ELSE v
    IN  /\ isRounded(p.predictedMood, bounded(mood), Unit)
        /\ isRounded(p.predictedEnergy, bounded(energy), Unit)

\* the entries a forecast made now uses for step i
hourEntry(i) == patternOfHour(stepHour(i))
dayEntry(i) == patternOfDay(stepDay(i))

(* C21: generatePredictions applies the trend step and its confidence bump  *)
(* exactly when at least 3 samples are stored: with fewer, every point is   *)
(* the untrended one with the unraised confidence; with 3 or more, every    *)
(* point is moved by a weight in [0.1, 0.4] times the trend mean(last 3) -  *)
(* mean(the up to 3 before them) and its confidence is raised by 0.1; with  *)
(* exactly 3 stored samples the trend is 0 and the values are the untrended *)
(* ones.                                                                    *)
C21_TrendStep ==
    returnedPredictions =>
        \A i \in 1..Len(ret.value) :
            LET p == ret.value[i]
                c == claimedConfidence(hourEntry(i).entryCount, dayEntry(i).entryCount,
                                       Len(entries) >= 3)
            IN  /\ isRounded(p.confidence, 100 * c, 60)
                /\ Len(entries) <= 3 =>
                       isUntrendedPoint(p, hourEntry(i), dayEntry(i), i, ret.noise[i])
                /\ Len(entries) >= 3 =>
                       \E w \in 10..40 :
                           isTrendedPoint(p, hourEntry(i), dayEntry(i), i, ret.noise[i], w)

\* a forecast over at least 4 stored samples has a point that the trend moved
\* away from the untrended one
C21_Witness ==
    /\ returnedPredictions
    /\ Len(entries) >= 4
    /\ claimedMoodTrend # 0
    /\ \E i \in 1..Len(ret.value) :
           ~isUntrendedPoint(ret.value[i], hourEntry(i), dayEntry(i), i, ret.noise[i])


(* C22 as claimed: at step i the trend is applied with the weight           *)
(* max(0.1, 0.4 - 0.03 * i), which is 0.4 for the first forecast step.      *)
C22_AsClaimed ==
    (returnedPredictions /\ Len(entries) >= 3 /\ Len(ret.value) >= 1) =>
        isTrendedPoint(ret.value[1], hourEntry(1), dayEntry(1), 1, ret.noise[1], 40)

(* C22: at forecast step i = 1, 2, .. the trend is applied with the weight  *)
(* max(0.1, 0.4 - 0.03 * i): 0.37 for the first step, 0.03 less at each     *)
(* further step up to the ninth, and the floor 0.1 for every i >= 10.       *)
C22_TrendWeight ==
    (returnedPredictions /\ Len(entries) >= 3) =>
        \A i \in 1..Len(ret.value) :
            isTrendedPoint(ret.value[i], hourEntry(i), dayEntry(i), i, ret.noise[i],
                           IF i >= 10 THEN 10 ELSE 37 - 3 * (i - 1))

\* a 12-hour forecast whose first point is not the one the weight 0.4 gives
\* and whose last point is moved by the trend at the floor weight
C22_Witness ==
    /\ returnedPredictions
    /\ Len(entries) >= 4
    /\ Len(ret.value) = 12
    /\ ~isTrendedPoint(ret.value[1], hourEntry(1), dayEntry(1), 1, ret.noise[1], 40)
    /\ ~isUntrendedPoint(ret.value[12], hourEntry(12), dayEntry(12), 12, ret.noise[12])

-----------------------------------------------------------------------------
(* Vocabulary of C23 *)

\* the noise scale of the claim at step i, in hundredths: max(0.2, 1 - 0.05 * i)
claimedScale(i) == IF 100 - 5 * i >= 20 THEN 100 - 5 * i ELSE 20

\* the bounds of the claim at step i, in 1/Unit: 3 + 4 * s and 4 + 5 * s
claimedMoodBound(i) == 3 * Unit + 4 * claimedScale(i) * (Unit \div 100)
claimedEnergyBound(i) == 4 * Unit + 5 * claimedScale(i) * (Unit \div 100)

\* x and y are at most d apart
within(x, y, d) == x - y <= d /\ y - x <= d

(* C23: before clamping, each forecast value starts from the average of the *)
(* hour pattern and the day pattern, and when no trend is applied (fewer    *)
(* than 3 stored samples) the perturbation added to it is at most 3 + 4 * s *)
(* for the mood and 4 + 5 * s for the energy, s = max(0.2, 1 - 0.05 * i)    *)
(* being non-increasing in i: the point returned is that sum clamped and    *)
(* rounded, so unless it was clamped it lies within the bound plus the      *)
(* rounding's 0.5 of the average.                                           *)
C23_PerturbationBound ==
    (returnedPredictions /\ Len(entries) < 3) =>
        \A i \in 1..Len(ret.value) :
            LET p == ret.value[i]
                perturbation == getTimeBasedVariation(stepHour(i), i, ret.noise[i])
                mood0 == (hourEntry(i).averageMood + dayEntry(i).averageMood) * (Unit \div 2)
                energy0 == (hourEntry(i).averageEnergy + dayEntry(i).averageEnergy)
                           * (Unit \div 2)
            IN  /\ within(perturbation.mood, 0, claimedMoodBound(i))
                /\ within(perturbation.energy, 0, claimedEnergyBound(i))
                /\ isUntrendedPoint(p, hourEntry(i), dayEntry(i), i, ret.noise[i])
                /\ p.predictedMood \notin {10, 90} =>
                       within(p.predictedMood * Unit, mood0,
                              claimedMoodBound(i) + Unit \div 2)
                /\ p.predictedEnergy \notin {10, 90} =>
                       within(p.predictedEnergy * Unit, energy0,
                              claimedEnergyBound(i) + Unit \div 2)
                /\ i > 1 => randomFactor(i) <= randomFactor(i - 1)
                /\ randomFactor(i) = claimedScale(i)

\* a 12-hour forecast without trend, drawn at the extremes of Math.random(),
\* whose last point lies under the average of its patterns by more than the
\* circadian term alone allows
C23_Witness ==
    /\ returnedPredictions
    /\ Len(entries) < 3
    /\ Len(ret.value) = 12
    /\ ret.noise[12].energy = 0
    /\ ret.value[12].predictedEnergy \notin {10, 90}
    /\ 2 * ret.value[12].predictedEnergy
         < hourEntry(12).averageEnergy + dayEntry(12).averageEnergy - 2 * 4

-----------------------------------------------------------------------------
(* LocalStateManager.saveEntry on a store whose calls can fail.  Each of    *)
(* the three AsyncStorage calls of saveEntry either succeeds or rejects:    *)
(* getEntries catches a rejected read and returns [], saveEntry catches a   *)
(* rejected write, logs it and returns.  Calls overlap: a call's storage    *)
(* calls take effect one at a time, between those of the other calls in     *)
(* flight.  A call record also keeps what the properties need of the call's *)
(* history: whether a storage call of it failed, and whether it overlapped  *)
(* another call.                                                            *)

\* the numbers of samples stored when the calls start
StoreStored == { 0, 3 }

\* the ids saveEntry is called with: one never stored, and the oldest stored
StoreIds ==
    { MaxInit + 1 + Len(calls) }
        \cup { origin.entries[j].id : j \in 1..Min(1, Len(origin.entries)) }

StoreInit ==
    \E k \in StoreStored, slider \in InitSliders :
        /\ entries = initialEntries(k, slider)
        /\ lastEntry = (IF k = 0 THEN <<>> ELSE << initialEntries(k, slider)[k] >>)
        /\ dailyPatterns = <<>>
        /\ weeklyPatterns = <<>>
        /\ now = FirstSaveTime + k * MinuteMs
        /\ saves = 0
        /\ ret = [op |-> "none"]
        /\ tables = [daily |-> DEFAULT_DAILY_PATTERNS, weekly |-> DEFAULT_WEEKLY_PATTERNS]
        /\ calls = <<>>
        /\ origin = [entries |-> initialEntries(k, slider), daily |-> <<>>, weekly |-> <<>>]

\* the calls, each marked as overlapped if it is in flight
overlapping(cs) ==
    [c \in 1..Len(cs) |-> IF cs[c].pc = "done" THEN cs[c]
                          ELSE [cs[c] EXCEPT !.overlapped = TRUE]]

\* saveEntry(entry) up to its write: const entries = await this.getEntries(),
\* which is [] when the read is rejected, and updatedEntries
saveEntryGetEntries(entry, resolved) ==
    LET inFlight == \E c \in 1..Len(calls) : calls[c].pc # "done"
        read == IF resolved THEN getEntries ELSE <<>>
    IN  /\ Len(calls) < MaxCalls
        /\ calls' = Append(overlapping(calls),
                           [op |-> "saveEntry", pc |-> "setEntries", entry |-> entry,
                            updatedEntries |-> updatedEntries(read, entry),
                            failed |-> ~resolved, overlapped |-> inFlight])
        /\ UNCHANGED <<entries, lastEntry, dailyPatterns, weeklyPatterns, now, saves, ret>>
        /\ UNCHANGED <<tables, origin>>

\* await AsyncStorage.setItem(STORAGE_KEYS.ENTRIES, ..): rejected, the catch
\* block ends the call
saveEntryWriteEntries(c, resolved) ==
    /\ calls[c].op = "saveEntry"
    /\ calls[c].pc = "setEntries"
    /\ entries' = (IF resolved THEN calls[c].updatedEntries ELSE entries)
    /\ proceed(c, IF resolved THEN [calls[c] EXCEPT !.pc = "setLastEntry"]
                  ELSE [calls[c] EXCEPT !.pc = "done", !.failed = TRUE])
    /\ UNCHANGED <<lastEntry, dailyPatterns, weeklyPatterns, now, saves, ret>>
    /\ UNCHANGED <<tables, origin>>

\* await AsyncStorage.setItem(STORAGE_KEYS.LAST_ENTRY, ..)
saveEntryWriteLastEntry(c, resolved) ==
    /\ calls[c].op = "saveEntry"
    /\ calls[c].pc = "setLastEntry"
    /\ lastEntry' = (IF resolved THEN << calls[c].entry >> ELSE lastEntry)
    /\ proceed(c, [calls[c] EXCEPT !.pc = "done", !.failed = @ \/ ~resolved])
    /\ UNCHANGED <<entries, dailyPatterns, weeklyPatterns, now, saves, ret>>
    /\ UNCHANGED <<tables, origin>>

StoreNext ==
    \/ \E id \in StoreIds, slider \in SaveSliders, resolved \in BOOLEAN :
           saveEntryGetEntries([id |-> id, timestamp |-> now,
                                mood |-> slider.mood, energy |-> slider.energy], resolved)
    \/ \E c \in 1..Len(calls), resolved \in BOOLEAN : saveEntryWriteEntries(c, resolved)
    \/ \E c \in 1..Len(calls), resolved \in BOOLEAN : saveEntryWriteLastEntry(c, resolved)

StoreSpec == StoreInit /\ [][StoreNext]_vars

-----------------------------------------------------------------------------
(* Vocabulary of C24, C25, C29 and C30 *)

\* an entry with this id is stored
isStored(id) == \E j \in 1..Len(entries) : entries[j].id = id

\* no storage call of any call made has failed
noneFailed == \A c \in 1..Len(calls) : ~calls[c].failed

(* C24: if two saveEntry calls for entries with distinct ids overlap, then  *)
(* once both have completed (their storage calls having succeeded) the      *)
(* stored entries list contains both entries.                               *)
C24_BothStored ==
    (allReturned /\ noneFailed) =>
        \A c, d \in 1..Len(calls) :
            (/\ calls[c].overlapped
             /\ calls[d].overlapped
             /\ calls[c].entry.id # calls[d].entry.id)
                => isStored(calls[c].entry.id) /\ isStored(calls[d].entry.id)

(* C25: saveEntry never removes or changes a stored entry whose id differs  *)
(* from the id being saved, in every outcome of its storage calls: after    *)
(* one saveEntry call has returned, every entry that was stored before it   *)
(* under another id is still stored, unchanged.                             *)
C25_OthersKept ==
    (Len(calls) = 1 /\ calls[1].pc = "done") =>
        \A j \in 1..Len(origin.entries) :
            origin.entries[j].id # calls[1].entry.id =>
                \E k \in 1..Len(entries) : entries[k] = origin.entries[j]

(* C30: whenever no saveEntry call is in progress and the stored entries    *)
(* list is non-empty, the stored last-entry record equals the final element *)
(* of the stored entries list, also after overlapping calls and after a     *)
(* call in which a storage write failed.                                    *)
C30_LastEntryIsFinal ==
    ((\A c \in 1..Len(calls) : calls[c].pc = "done") /\ entries # <<>>) =>
        lastEntry = << entries[Len(entries)] >>

\* the entries of es whose id is not id, in their order
RECURSIVE othersOf(_, _)
othersOf(es, id) ==
    IF es = <<>> THEN <<>>
    ELSE IF Head(es).id = id THEN othersOf(Tail(es), id)
         ELSE <<Head(es)>> \o othersOf(Tail(es), id)

\* no two entries of es have the same id
noDuplicateIds(es) == \A j, k \in 1..Len(es) : es[j].id = es[k].id => j = k

\* the call c, which overlapped no other call and whose read succeeded, writes
\* the entries key
writesAlone(c) ==
    /\ calls[c].pc = "setEntries"
    /\ calls'[c].pc = "setLastEntry"
    /\ ~calls[c].overlapped
    /\ ~calls[c].failed

(* C29: the stored entries list never holds two entries with the same id;   *)
(* a saveEntry call that overlaps no other and whose storage calls succeed  *)
(* appends an entry whose id is not stored, and for an id already stored it *)
(* replaces that entry and places the new one last, leaving the relative    *)
(* order of all other entries and the length of the list unchanged.         *)
C29_NoDuplicateIds ==
    [][/\ noDuplicateIds(entries')
       /\ \A c \in 1..Len(calls) :
              writesAlone(c) =>
                  LET entry == calls[c].entry IN
                  /\ entries'[Len(entries')] = entry
                  /\ othersOf(entries', entry.id) = othersOf(entries, entry.id)
                  /\ Len(entries') = (IF isStored(entry.id) THEN Len(entries)
                                      ELSE Len(entries) + 1)]_vars

\* the oldest of three stored samples was saved again, by a call on its own
\* whose storage calls succeeded: it is stored last, changed, among three
C29_Witness ==
    /\ Len(calls) = 1
    /\ calls[1].pc = "done"
    /\ ~calls[1].failed
    /\ Len(origin.entries) = 3
    /\ calls[1].entry.id = origin.entries[1].id
    /\ calls[1].entry # origin.entries[1]
    /\ entries = << origin.entries[2], origin.entries[3], calls[1].entry >>

-----------------------------------------------------------------------------
(* Vocabulary of C28 *)

\* the sum of the entryCount values of a list of pattern entries
countSum(ps) == Sum([i \in 1..Len(ps) |-> ps[i].entryCount])

(* C28: for any stored sample set, the entryCount values analyzeDailyPatterns *)
(* returns sum over the 24 hours to the number of stored samples, and those *)
(* analyzeWeeklyPatterns returns sum over the 7 days to the same number:    *)
(* every sample is counted in exactly one hour bucket and exactly one day   *)
(* bucket.                                                                  *)
C28_CountSums ==
    /\ returnedDaily =>
           /\ countSum(ret.value) = Len(entries)
           /\ \A j \in 1..Len(entries) :
                  Cardinality({ i \in 1..Len(ret.value) :
                                    /\ ret.value[i].hour = getHours(entries[j].timestamp)
                                    /\ ret.value[i].entryCount >= 1 }) = 1
    /\ returnedWeekly =>
           /\ countSum(ret.value) = Len(entries)
           /\ \A j \in 1..Len(entries) :
                  Cardinality({ i \in 1..Len(ret.value) :
                                    /\ ret.value[i].dayOfWeek = getDay(entries[j].timestamp)
                                    /\ ret.value[i].entryCount >= 1 }) = 1

\* a daily analysis of samples of two different hours, more than the hourly
\* cap of them in one hour
C28_Witness ==
    /\ returnedDaily
    /\ Len(entries) >= 12
    /\ \E i, j \in 1..24 :
           /\ i # j
           /\ ret.value[i].entryCount >= 11
           /\ ret.value[j].entryCount = 1
    /\ countSum(ret.value) = Len(entries)

-----------------------------------------------------------------------------
(* The track screen's save flow.  TrackScreen.saveEntry awaits              *)
(* LocalStateManager.saveEntry, then loadData, and then starts              *)
(* analyzeDailyPatterns and analyzeWeeklyPatterns without awaiting them.    *)
(* loadData awaits BoltSuggester.generateDailySuggestion, which runs both   *)
(* analyses itself when the suggestion service returns no suggestion, and   *)
(* then generatePredictions(12), whose result it displays.  The Save button *)
(* stays enabled until the awaited save has returned and is enabled again   *)
(* by the next slider move, so a flow can start while another one or its    *)
(* analyses are in flight.  The build modelled has no API key: the          *)
(* suggestion service answers from generateMockSuggestions.  The reads of   *)
(* loadData and of the suggestion code that only feed the display are left  *)
(* out; every storage call succeeds.                                        *)

\* the flows started in a session
MaxFlows == 2

\* the numbers of samples stored when the session starts
FlowStored == { 0, 3 }

\* the slider positions of the flows: in the morning the second one (energy
\* over 70) makes the suggestion service return a suggestion
FlowSliders == { [mood |-> 60, energy |-> 70], [mood |-> 50, energy |-> 80] }

\* latestEntry?.mood || 50
orFifty(v) == IF v = 0 THEN 50 ELSE v

\* BoltAIService.getTimeOfDay(hour)
getTimeOfDay(hour) ==
    IF hour < 6 THEN "early_morning"
    ELSE IF hour < 12 THEN "morning"
    ELSE IF hour < 17 THEN "afternoon"
    ELSE IF hour < 21 THEN "evening" ELSE "night"

\* BoltAIService.calculateTrend(entries): diff > 5 with diff = recentAvg -
\* olderAvg is compared after multiplying by 2 * recent.length * older.length
suggestionTrend(es) ==
    LET recent == SliceLast(es, 2)
        older == SliceFromEnd(es, 4, 2)
        total(s) == Sum(Map(s, moodOf)) + Sum(Map(s, energyOf))
        diff == total(recent) * Len(older) - total(older) * Len(recent)
    IN  IF Len(es) < 2 \/ Len(older) = 0 THEN "stable"
        ELSE IF diff > 10 * Len(recent) * Len(older) THEN "improving"
        ELSE IF diff < -10 * Len(recent) * Len(older) THEN "declining"
        ELSE "stable"

\* whether generateMockSuggestions(request, 1) returns a suggestion, for the
\* entries buildAnalysisRequest read at the time t
hasMockSuggestion(es, t) ==
    LET recentEntries == SliceLast(es, 20)
        currentMood == IF recentEntries = <<>> THEN 50
                       ELSE orFifty(recentEntries[Len(recentEntries)].mood)
        currentEnergy == IF recentEntries = <<>> THEN 50
                         ELSE orFifty(recentEntries[Len(recentEntries)].energy)
        recentTrend == suggestionTrend(SliceLast(recentEntries, 5))
    IN  \/ currentEnergy < 30
        \/ currentMood < 40
        \/ getTimeOfDay(getHours(t)) = "morning" /\ currentEnergy > 70
        \/ recentTrend = "improving"
        \/ getDay(t) = 0 /\ currentMood < 50

FlowInit ==
    \E k \in FlowStored, slider \in InitSliders :
        /\ tables = [daily |-> DEFAULT_DAILY_PATTERNS, weekly |-> DEFAULT_WEEKLY_PATTERNS]
        /\ entries = initialEntries(k, slider)
        /\ lastEntry = (IF k = 0 THEN <<>> ELSE << initialEntries(k, slider)[k] >>)
        /\ dailyPatterns = (IF k = 0 THEN <<>>
                            ELSE computeDailyPatterns(initialEntries(k, slider)))
        /\ weeklyPatterns = (IF k = 0 THEN <<>>
                             ELSE computeWeeklyPatterns(initialEntries(k, slider)))
        /\ now = FirstSaveTime + k * MinuteMs
        /\ saves = 0
        /\ ret = [op |-> "none"]
        /\ calls = <<>>
        /\ origin = [entries |-> initialEntries(k, slider),
                     daily |-> dailyPatterns, weekly |-> weeklyPatterns]

\* the flow c is at the await named pc
flowAt(c, pc) == calls[c].op = "TrackScreen.saveEntry" /\ calls[c].pc = pc

\* the flow c moves on to the await named pc
flowTo(c, pc) == proceed(c, [calls[c] EXCEPT !.pc = pc])

\* TrackScreen.saveEntry up to the write of LocalStateManager.saveEntry: the
\* entry is made from the sliders and Date.now(), the entries are read
trackSaveEntry(slider) ==
    LET entry == [id |-> MaxInit + 1 + saves, timestamp |-> now,
                  mood |-> slider.mood, energy |-> slider.energy]
    IN  /\ saves < MaxFlows
        /\ saves' = saves + 1
        /\ calls' = Append(calls, [op |-> "TrackScreen.saveEntry", pc |-> "setEntries",
                                   entry |-> entry,
                                   updatedEntries |-> updatedEntries(getEntries, entry),
                                   value |-> <<>>, dailyPatterns |-> <<>>,
                                   weeklyPatterns |-> <<>>, predictions |-> <<>>])
        /\ UNCHANGED <<entries, lastEntry, dailyPatterns, weeklyPatterns, now, ret>>
        /\ UNCHANGED <<tables, origin>>

\* await AsyncStorage.setItem(STORAGE_KEYS.ENTRIES, ..)
trackSetEntries(c) ==
    /\ flowAt(c, "setEntries")
    /\ entries' = calls[c].updatedEntries
    /\ flowTo(c, "setLastEntry")
    /\ UNCHANGED <<lastEntry, dailyPatterns, weeklyPatterns, now, saves, ret>>
    /\ UNCHANGED <<tables, origin>>

\* await AsyncStorage.setItem(STORAGE_KEYS.LAST_ENTRY, ..); saveEntry returns
\* and loadData starts
trackSetLastEntry(c) ==
    /\ flowAt(c, "setLastEntry")
    /\ lastEntry' = << calls[c].entry >>
    /\ flowTo(c, "generateDailySuggestion")
    /\ UNCHANGED <<entries, dailyPatterns, weeklyPatterns, now, saves, ret>>
    /\ UNCHANGED <<tables, origin>>

\* loadData up to the answer of boltAIService.generateSuggestions(1): the
\* entries buildAnalysisRequest reads decide whether there is a suggestion
trackGenerateSuggestions(c) ==
    /\ flowAt(c, "generateDailySuggestion")
    /\ flowTo(c, IF hasMockSuggestion(getEntries, now) THEN "getDailyPatterns"
                 ELSE "analyzeDailyPatterns")
    /\ UNCHANGED <<entries, lastEntry, dailyPatterns, weeklyPatterns, now, saves, ret>>
    /\ UNCHANGED <<tables, origin>>

\* generateDailySuggestion without a suggestion: await analyzeDailyPatterns(),
\* its read and loop
trackAnalyzeDailyPatterns(c) ==
    /\ flowAt(c, "analyzeDailyPatterns")
    /\ proceed(c, [calls[c] EXCEPT !.pc = "saveDailyPatterns",
                                   !.value = computeDailyPatterns(getEntries)])
    /\ UNCHANGED <<entries, lastEntry, dailyPatterns, weeklyPatterns, now, saves, ret>>
    /\ UNCHANGED <<tables, origin>>

\* its saveDailyPatterns
trackSaveDailyPatterns(c) ==
    /\ flowAt(c, "saveDailyPatterns")
    /\ dailyPatterns' = calls[c].value
    /\ flowTo(c, "analyzeWeeklyPatterns")
    /\ UNCHANGED <<entries, lastEntry, weeklyPatterns, now, saves, ret>>
    /\ UNCHANGED <<tables, origin>>

\* await analyzeWeeklyPatterns(), its read and loop
trackAnalyzeWeeklyPatterns(c) ==
    /\ flowAt(c, "analyzeWeeklyPatterns")
    /\ proceed(c, [calls[c] EXCEPT !.pc = "saveWeeklyPatterns",
                                   !.value = computeWeeklyPatterns(getEntries)])
    /\ UNCHANGED <<entries, lastEntry, dailyPatterns, weeklyPatterns, now, saves, ret>>
    /\ UNCHANGED <<tables, origin>>

\* its saveWeeklyPatterns; the suggestion is made and generateDailySuggestion
\* returns
trackSaveWeeklyPatterns(c) ==
    /\ flowAt(c, "saveWeeklyPatterns")
    /\ weeklyPatterns' = calls[c].value
    /\ flowTo(c, "getDailyPatterns")
    /\ UNCHANGED <<entries, lastEntry, dailyPatterns, now, saves, ret>>
    /\ UNCHANGED <<tables, origin>>

\* loadData's generatePredictions(12): await getDailyPatterns()
trackGetDailyPatterns(c) ==
    /\ flowAt(c, "getDailyPatterns")
    /\ proceed(c, [calls[c] EXCEPT !.pc = "getWeeklyPatterns",
                                   !.dailyPatterns = getDailyPatterns])
    /\ UNCHANGED <<entries, lastEntry, dailyPatterns, weeklyPatterns, now, saves, ret>>
    /\ UNCHANGED <<tables, origin>>

\* await getWeeklyPatterns()
trackGetWeeklyPatterns(c) ==
    /\ flowAt(c, "getWeeklyPatterns")
    /\ proceed(c, [calls[c] EXCEPT !.pc = "getEntries",
                                   !.weeklyPatterns = getWeeklyPatterns])
    /\ UNCHANGED <<entries, lastEntry, dailyPatterns, weeklyPatterns, now, saves, ret>>
    /\ UNCHANGED <<tables, origin>>

\* await getEntries(), the forecast, setPredictions(predictionData); loadData
\* returns and the flow starts the two analyses without awaiting them
trackGetEntries(c, noise) ==
    /\ flowAt(c, "getEntries")
    /\ calls' = [calls EXCEPT ![c] =
                     [calls[c] EXCEPT
                          !.pc = "done",
                          !.predictions = computePredictions(calls[c].dailyPatterns,
                                                             calls[c].weeklyPatterns,
                                                             getEntries, now, 12, noise)]]
                \o << [op |-> "analyzeDailyPatterns", pc |-> "getEntries", value |-> <<>>],
                      [op |-> "analyzeWeeklyPatterns", pc |-> "getEntries", value |-> <<>>] >>
    /\ UNCHANGED <<entries, lastEntry, dailyPatterns, weeklyPatterns, now, saves, ret>>
    /\ UNCHANGED <<tables, origin>>

\* an analysis started by a flow: const entries = await getEntries() and the loop
analysisGetEntries(c) ==
    /\ calls[c].op \in { "analyzeDailyPatterns", "analyzeWeeklyPatterns" }
    /\ calls[c].pc = "getEntries"
    /\ proceed(c, IF calls[c].op = "analyzeDailyPatterns"
                  THEN [calls[c] EXCEPT !.pc = "saveDailyPatterns",
                                        !.value = computeDailyPatterns(getEntries)]
                  ELSE [calls[c] EXCEPT !.pc = "saveWeeklyPatterns",
                                        !.value = computeWeeklyPatterns(getEntries)])
    /\ UNCHANGED <<entries, lastEntry, dailyPatterns, weeklyPatterns, now, saves, ret>>
    /\ UNCHANGED <<tables, origin>>

FlowNext ==
    \/ \E slider \in FlowSliders : trackSaveEntry(slider)
    \/ \E c \in 1..Len(calls) : trackSetEntries(c)
    \/ \E c \in 1..Len(calls) : trackSetLastEntry(c)
    \/ \E c \in 1..Len(calls) : trackGenerateSuggestions(c)
    \/ \E c \in 1..Len(calls) : trackAnalyzeDailyPatterns(c)
    \/ \E c \in 1..Len(calls) : trackSaveDailyPatterns(c)
    \/ \E c \in 1..Len(calls) : trackAnalyzeWeeklyPatterns(c)
    \/ \E c \in 1..Len(calls) : trackSaveWeeklyPatterns(c)
    \/ \E c \in 1..Len(calls) : trackGetDailyPatterns(c)
    \/ \E c \in 1..Len(calls) : trackGetWeeklyPatterns(c)
    \/ \E c \in 1..Len(calls), noise \in NoiseStreams(12) : trackGetEntries(c, noise)
    \/ \E c \in 1..Len(calls) : analysisGetEntries(c)
    \/ \E c \in 1..Len(calls) : analyzeDailyPatternsSave(c)
    \/ \E c \in 1..Len(calls) : analyzeWeeklyPatternsSave(c)

FlowSpec == FlowInit /\ [][FlowNext]_vars

-----------------------------------------------------------------------------
(* Vocabulary of C26 and C27 *)

\* the flows started
flows == { c \in 1..Len(calls) : calls[c].op = "TrackScreen.saveEntry" }

\* the samples stored at the start, with those the flows of S saved
withSaved(S) ==
    LET Saved(c) == c \in S
        indices == SelectSeq([c \in 1..Len(calls) |-> c], Saved)
    IN  origin.entries \o [j \in 1..Len(indices) |-> calls[indices[j]].entry]

\* the pattern summaries the displayed forecast of flow c was computed from are
\* those of a sample set that holds the entry the flow saved
accountsForSaved(c) ==
    /\ \E S \in SUBSET flows :
           c \in S /\ calls[c].dailyPatterns = computeDailyPatterns(withSaved(S))
    /\ \E S \in SUBSET flows :
           c \in S /\ calls[c].weeklyPatterns = computeWeeklyPatterns(withSaved(S))

(* C26: in the track screen's save flow, the forecast that is reloaded and  *)
(* displayed after an entry is saved is computed from stored pattern        *)
(* summaries that already account for the entry just saved.                 *)
C26_ForecastAfterAnalysis ==
    \A c \in flows : calls[c].pc = "done" => accountsForSaved(c)

(* C27: after any sequence of save flows, whenever no operation is in       *)
(* flight the stored daily and weekly pattern summaries are those of the    *)
(* currently stored entries, their entryCount sums equal to the number of   *)
(* stored entries, even when the background analysis of one save overlaps   *)
(* the next save and its analysis.                                          *)
C27_PatternsCurrent ==
    allReturned =>
        /\ isDailySummary(dailyPatterns)
        /\ isWeeklySummary(weeklyPatterns)
        /\ countSum(dailyPatterns) = Len(entries)
        /\ countSum(weeklyPatterns) = Len(entries)

=============================================================================
